---- MODULE Spec2Model ----
(***************************************************************************)
(* AGCP archive container engine: the Writer (Compress / compressFiles),   *)
(* the header parser (readArchiveHeader), the destination resolver         *)
(* (determineDestPath) and the extraction scheduler (decompressFiles).     *)
(* Containers are modelled byte by byte; paths are sequences of bytes.     *)
(***************************************************************************)
EXTENDS Integers, Sequences, FiniteSets, TLC

\* ------------------------------------------------------------------ bounds
\* largest number of files in a source tree
MaxFiles == 2
\* largest source file length, in two-byte words
MaxData == 1
\* largest worker-pool size (runtime.NumCPU())
MaxCPU == 2
\* most calls a second goroutine of the process makes while this one works
MaxPeerCalls == 2
\* most Init and Stop calls made on the observer by goroutines in any order
MaxStrayCalls == 6

\* ------------------------------------------------------- program constants
Version == 1
ArchiveFile == 0
ArchiveDir == 1
\* bufio.NewReader's buffer size
BufSize == 4096

Magic == <<65, 71, 67, 80>>

\* ------------------------------------------------------------ byte helpers
Min(a, b) == IF a < b THEN a ELSE b

SubSeqFrom(s, i) == IF i > Len(s) THEN <<>> ELSE SubSeq(s, i, Len(s))

Take(s, n) == IF n <= 0 THEN <<>> ELSE SubSeq(s, 1, Min(n, Len(s)))

RECURSIVE Zeros(_)
Zeros(n) == IF n <= 0 THEN <<>> ELSE <<0>> \o Zeros(n - 1)

RECURSIVE SumSeq(_)
SumSeq(s) == IF s = <<>> THEN 0 ELSE s[1] + SumSeq(Tail(s))

\* binary.Write(f, binary.BigEndian, v) of a k-byte unsigned integer
RECURSIVE BigEndian(_, _)
BigEndian(v, k) ==
    IF k = 0 THEN <<>> ELSE BigEndian(v \div 256, k - 1) \o <<v % 256>>

\* binary.Read(br, binary.BigEndian, &v): the value of the bytes read
RECURSIVE BigEndianValue(_)
BigEndianValue(bs) ==
    IF bs = <<>> THEN 0
    ELSE BigEndianValue(SubSeq(bs, 1, Len(bs) - 1)) * 256 + bs[Len(bs)]

\* positional write of bs at offset pos (0-based) of file contents f
WriteAt(f, pos, bs) ==
    [i \in 1..(IF pos + Len(bs) > Len(f) THEN pos + Len(bs) ELSE Len(f)) |->
        IF i > pos /\ i <= pos + Len(bs) THEN bs[i - pos]
        ELSE IF i <= Len(f) THEN f[i] ELSE 0]

\* ------------------------------------------------------------------- paths
Slash == 47
Dot == <<46>>
DotDot == <<46, 46>>

\* the elements of a path between separators (empty elements kept)
RECURSIVE SplitPath(_, _)
SplitPath(p, cur) ==
    IF p = <<>> THEN <<cur>>
    ELSE IF p[1] = Slash THEN <<cur>> \o SplitPath(Tail(p), <<>>)
    ELSE SplitPath(Tail(p), Append(cur, p[1]))

RECURSIVE JoinElems(_)
JoinElems(es) ==
    IF es = <<>> THEN <<>>
    ELSE IF Len(es) = 1 THEN es[1]
    ELSE es[1] \o <<Slash>> \o JoinElems(Tail(es))

\* filepath.Clean's pass over the elements: drop "" and ".", resolve ".."
RECURSIVE CleanElems(_, _, _)
CleanElems(es, stack, rooted) ==
    IF es = <<>> THEN stack
    ELSE LET e == es[1] IN
         IF e = <<>> \/ e = Dot THEN CleanElems(Tail(es), stack, rooted)
         ELSE IF e = DotDot THEN
              IF stack # <<>> /\ stack[Len(stack)] # DotDot
                  THEN CleanElems(Tail(es), SubSeq(stack, 1, Len(stack) - 1), rooted)
              ELSE IF rooted THEN CleanElems(Tail(es), stack, rooted)
              ELSE CleanElems(Tail(es), Append(stack, e), rooted)
         ELSE CleanElems(Tail(es), Append(stack, e), rooted)

Clean(p) ==
    IF p = <<>> THEN Dot
    ELSE LET rooted == p[1] = Slash
             body == JoinElems(CleanElems(SplitPath(p, <<>>), <<>>, rooted))
         IN IF rooted THEN <<Slash>> \o body
            ELSE IF body = <<>> THEN Dot ELSE body

\* filepath.Join(a, b): empty elements are ignored, the result is Cleaned
Join(a, b) ==
    IF a = <<>> /\ b = <<>> THEN <<>>
    ELSE IF a = <<>> THEN Clean(b)
    ELSE IF b = <<>> THEN Clean(a)
    ELSE Clean(a \o <<Slash>> \o b)

\* filepath.Base(p)
Base(p) ==
    IF p = <<>> THEN Dot
    ELSE LET es == SelectSeq(SplitPath(p, <<>>), LAMBDA e : e # <<>>)
         IN IF es = <<>> THEN <<Slash>> ELSE es[Len(es)]

\* filepath.Dir(p)
Dir(p) ==
    LET es == SplitPath(p, <<>>)
    IN IF Len(es) <= 1 THEN Dot
       ELSE LET d == JoinElems(SubSeq(es, 1, Len(es) - 1))
            IN IF d = <<>> THEN <<Slash>> ELSE Clean(d)

\* the proper ancestors of a cleaned relative path and the path itself
Prefixes(p) ==
    LET es == SplitPath(p, <<>>)
    IN {JoinElems(SubSeq(es, 1, k)) : k \in 1..Len(es)}

\* ------------------------------------------------------------------- codec
\* The LZ4 frame as the engine sees it: a magic number, data blocks (a length
\* byte, then the bytes), an end mark (a zero length) and a content checksum.
LZ4FrameMagic == <<4, 34, 77, 24>>

Checksum(data) == SumSeq(data) % 256

\* lz4.NewWriter(w): nothing written yet, nothing buffered
NewZw == [state |-> "new", pending |-> <<>>, sum |-> <<>>, out |-> <<>>]

\* zw.Write(buf[:n]): the first write emits the frame header; data is buffered
ZwWrite(zw, chunk) ==
    [zw EXCEPT !.state = "write",
               !.out = IF zw.state = "new" THEN @ \o LZ4FrameMagic ELSE @,
               !.pending = @ \o chunk,
               !.sum = @ \o chunk]

\* zw.Close(): flushes the buffered block when the writer is open, and in every
\* state writes the end mark and the checksum to the underlying file
ZwClose(zw) ==
    LET block == IF zw.state = "write" /\ zw.pending # <<>>
                     THEN <<Len(zw.pending)>> \o zw.pending ELSE <<>>
    IN [zw EXCEPT !.state = "closed",
                  !.pending = <<>>,
                  !.out = @ \o block \o <<0, Checksum(zw.sum)>>]

\* the chunks f.Read(buf) hands to the codec, at most chunk bytes at a time
RECURSIVE ReadChunks(_, _)
ReadChunks(data, chunk) ==
    IF data = <<>> THEN <<>>
    ELSE <<Take(data, chunk)>> \o ReadChunks(SubSeqFrom(data, chunk + 1), chunk)

RECURSIVE ZwWriteAll(_, _)
ZwWriteAll(zw, chunks) ==
    IF chunks = <<>> THEN zw ELSE ZwWriteAll(ZwWrite(zw, chunks[1]), Tail(chunks))

\* compressFileStreaming(filePath, w) on a readable file holding data, read in
\* pieces of rd bytes: the bytes written to w (deferred zw.Close() included),
\* the original size returned and the byte counts reported to the observer
CompressFileStreaming(data, rd) ==
    IF Len(data) = 0
        THEN [written |-> ZwClose(NewZw).out, originalSize |-> 0, reported |-> <<>>]
    ELSE LET chunks == ReadChunks(data, rd)
             zw == ZwClose(ZwWriteAll(NewZw, chunks))
         IN [written |-> ZwClose(zw).out,
             originalSize |-> SumSeq([i \in 1..Len(chunks) |-> Len(chunks[i])]),
             reported |-> [i \in 1..Len(chunks) |-> Len(chunks[i])]]

\* lz4.NewReader(r) read block by block until need bytes have been produced:
\* err is "none" (enough data), "eof" (the frame ended) or "invalid"
RECURSIVE ReadBlocks(_, _, _)
ReadBlocks(bs, acc, need) ==
    IF Len(acc) >= need THEN [data |-> acc, err |-> "none"]
    ELSE IF bs = <<>> THEN [data |-> acc, err |-> "invalid"]
    ELSE IF bs[1] = 0 THEN
         IF Len(bs) >= 2 /\ bs[2] = Checksum(acc)
             THEN [data |-> acc, err |-> "eof"]
             ELSE [data |-> acc, err |-> "invalid"]
    ELSE IF Len(bs) < 1 + bs[1] THEN [data |-> acc, err |-> "invalid"]
    ELSE ReadBlocks(SubSeqFrom(bs, 2 + bs[1]), acc \o SubSeq(bs, 2, 1 + bs[1]), need)

LZ4Read(bs, need) ==
    IF Take(bs, Len(LZ4FrameMagic)) # LZ4FrameMagic
        THEN [data |-> <<>>, err |-> "invalid"]
        ELSE ReadBlocks(SubSeqFrom(bs, Len(LZ4FrameMagic) + 1), <<>>, need)

\* ------------------------------------------------------------------ writer
\* writeArchiveHeader
HeaderBytes(kind, root, n) ==
    Magic \o BigEndian(Version, 1) \o BigEndian(kind, 1)
          \o BigEndian(Len(root), 2) \o root \o BigEndian(n, 4)

\* placeholderSize := 2 + len(entry.RelPath) + 8 + 8
PlaceholderSize(relPath) == 2 + Len(relPath) + 8 + 8

\* the bytes updateEntryMetadata writes at the entry's slot
EntryRecord(relPath, originalSize, compressedSize) ==
    BigEndian(Len(relPath), 2) \o relPath
        \o BigEndian(originalSize, 8) \o BigEndian(compressedSize, 8)

\* a size taken before the codec's closing bytes reached the file
CompressedSizeBeforeClose(startPos, endPos) ==
    endPos - startPos - Len(ZwClose(NewZw).out)

\* compressedSize := uint64(endPos - startPos)
CompressedSizeOf(startPos, endPos) == endPos - startPos

\* the position after the patch when the Writer does not seek back
PosAfterPatchNoSeek(endPos, slotEnd) == slotEnd

\* the write position compressFiles leaves after patching an entry:
\* f.Seek(endPos, io.SeekStart)
PosAfterPatch(endPos, slotEnd) == endPos

\* calculateTotalSize
CalculateTotalSize(es) ==
    LET t == SumSeq([i \in 1..Len(es) |-> Len(es[i].Data)])
    IN IF t = 0 THEN 1 ELSE t

\* ------------------------------------------------------------- file system
\* os.Stat(p) succeeds and reports a directory
IsDir(dirs, p) == Clean(p) \in dirs \cup {Dot}

\* os.MkdirAll(p, 0755) fails on the empty path and when p or one of its
\* ancestors is a regular file
MkdirAllOK(files, p) == p # <<>> /\ Prefixes(Clean(p)) \cap DOMAIN files = {}

MkdirAll(dirs, p) == dirs \cup Prefixes(Clean(p))

\* os.Create(p) fails on a directory and when the parent is no directory
CreateOK(dirs, p) == p # <<>> /\ ~IsDir(dirs, p) /\ IsDir(dirs, Dir(p))

\* the file system after content has been written to the file at p
PutFile(files, p, content) ==
    [q \in DOMAIN files \cup {p} |-> IF q = p THEN content ELSE files[q]]

\* ------------------------------------------------------------------ reader
\* bufio.Reader over the container: pos is the raw file position, buffered
\* the bytes read ahead and not yet consumed
NewReader == [pos |-> 0, buffered |-> 0]

\* a read that takes the end of the file for success
AtEOFIgnored(rd, got) == [rd |-> rd, bytes |-> got, ok |-> TRUE]

\* the error return of a read that meets the end of the file
AtEOF(rd, got) == [rd |-> rd, bytes |-> got, ok |-> FALSE]

\* io.ReadFull(br, p) with len(p) = need; every Read of the file returns at
\* most cap bytes. ok is FALSE when the file ends first.
RECURSIVE ReadFull(_, _, _, _, _)
ReadFull(f, rd, need, got, cap) ==
    IF need = 0 THEN [rd |-> rd, bytes |-> got, ok |-> TRUE]
    ELSE IF rd.buffered = 0 THEN
         LET room == Len(f) - rd.pos
             k == Min(Min(IF need >= BufSize THEN need ELSE BufSize, cap), room)
         IN IF k <= 0 THEN AtEOF(rd, got)
            ELSE IF need >= BufSize
                \* large read, empty buffer: read directly into p
                THEN ReadFull(f, [rd EXCEPT !.pos = @ + k], need - k,
                              got \o SubSeq(f, rd.pos + 1, rd.pos + k), cap)
                \* one read into the buffer
                ELSE ReadFull(f, [pos |-> rd.pos + k, buffered |-> k], need, got, cap)
    ELSE LET m == Min(need, rd.buffered)
             c == rd.pos - rd.buffered
         IN ReadFull(f, [rd EXCEPT !.buffered = @ - m], need - m,
                     got \o SubSeq(f, c + 1, c + m), cap)

AgcpExt == <<46, 97, 103, 99, 112>>

\* the container's file name taken as it is
KeepAgcp(fileName) == fileName

\* fileName with a trailing ".agcp" extension removed
TrimAgcp(fileName) ==
    IF Len(fileName) >= Len(AgcpExt)
       /\ SubSeqFrom(fileName, Len(fileName) - Len(AgcpExt) + 1) = AgcpExt
        THEN SubSeq(fileName, 1, Len(fileName) - Len(AgcpExt))
        ELSE fileName

\* a destination named after the container, whatever root name is stored
DetermineDestPathByArchive(archiveType, baseOutputDir, relPath, rootName, inputPath, userOutputName, dirs) ==
    IF archiveType = ArchiveDir THEN Join(baseOutputDir, relPath)
    ELSE IF userOutputName # <<>> THEN Join(userOutputName, relPath)
    ELSE IF relPath # <<>> THEN Join(baseOutputDir, relPath)
    ELSE Join(baseOutputDir, TrimAgcp(Base(inputPath)))

\* the resolution of the monolithic program: a given name is always the base
\* directory, never the file itself
DetermineDestPathUnder(archiveType, baseOutputDir, relPath, rootName, inputPath, userOutputName, dirs) ==
    IF archiveType = ArchiveDir THEN Join(baseOutputDir, relPath)
    ELSE IF relPath # <<>> THEN Join(baseOutputDir, relPath)
    ELSE LET fileName == IF rootName = <<>> THEN TrimAgcp(Base(inputPath))
                         ELSE rootName
         IN Join(baseOutputDir, fileName)

\* a resolution that drops the directories of the relative path
DetermineDestPathFlat(archiveType, baseOutputDir, relPath, rootName, inputPath, userOutputName, dirs) ==
    IF relPath # <<>> THEN Join(baseOutputDir, Base(relPath))
    ELSE IF userOutputName # <<>> THEN userOutputName
    ELSE Join(baseOutputDir, rootName)

\* determineDestPath; dirs is the set of directories os.Stat can see
DetermineDestPath(archiveType, baseOutputDir, relPath, rootName, inputPath, userOutputName, dirs) ==
    IF archiveType = ArchiveDir THEN Join(baseOutputDir, relPath)
    ELSE IF archiveType = ArchiveFile THEN
        IF userOutputName # <<>> THEN
            IF IsDir(dirs, userOutputName) THEN
                IF relPath = <<>> THEN Join(userOutputName, rootName)
                ELSE Join(userOutputName, relPath)
            ELSE IF relPath # <<>> THEN Join(userOutputName, relPath)
            ELSE userOutputName
        ELSE IF relPath # <<>> THEN Join(baseOutputDir, relPath)
        ELSE LET fileName == IF rootName = <<>> THEN TrimAgcp(Base(inputPath))
                             ELSE rootName
             IN Join(baseOutputDir, fileName)
    ELSE <<>>

\* a default that unpacks a directory archive into the working directory
OutputDirCwd(archiveType, rootName, decompressedName) ==
    IF decompressedName # <<>> THEN decompressedName ELSE Dot

\* the top-level output path readArchiveHeader decides
OutputDir(archiveType, rootName, decompressedName) ==
    IF decompressedName # <<>> THEN decompressedName
    ELSE IF archiveType = ArchiveDir THEN rootName
    ELSE Dot

\* the raw file position, read-ahead not taken off
StartOffsetRaw(offset, buffered) == offset

\* startOffset := offset - int64(buffered)
StartOffset(offset, buffered) == offset - buffered

ParseError(n) ==
    [err |-> TRUE, tasks |-> <<>>, startOffset |-> 0, outputDir |-> <<>>,
     archiveType |-> ArchiveDir, decoded |-> n, offset |-> 0, buffered |-> 0]

\* the entry loop of readArchiveHeader: left records still to decode
RECURSIVE ReadEntries(_, _, _, _, _, _)
ReadEntries(f, rd, cap, left, tasks, hd) ==
    IF left = 0 THEN
        [err |-> FALSE, tasks |-> tasks,
         startOffset |-> StartOffset(rd.pos, rd.buffered),
         outputDir |-> hd.outputDir, archiveType |-> hd.archiveType,
         decoded |-> Len(tasks), offset |-> rd.pos, buffered |-> rd.buffered]
    ELSE
    LET r1 == ReadFull(f, rd, 2, <<>>, cap) IN
    IF ~r1.ok THEN ParseError(Len(tasks)) ELSE
    LET r2 == ReadFull(f, r1.rd, BigEndianValue(r1.bytes), <<>>, cap) IN
    IF ~r2.ok THEN ParseError(Len(tasks)) ELSE
    LET r3 == ReadFull(f, r2.rd, 8, <<>>, cap) IN
    IF ~r3.ok THEN ParseError(Len(tasks)) ELSE
    LET r4 == ReadFull(f, r3.rd, 8, <<>>, cap) IN
    IF ~r4.ok THEN ParseError(Len(tasks)) ELSE
    LET task == [RelPath |-> r2.bytes,
                 OriginalSize |-> BigEndianValue(r3.bytes),
                 CompressedSize |-> BigEndianValue(r4.bytes),
                 DestPath |-> DetermineDestPath(hd.archiveType, hd.outputDir,
                                 r2.bytes, hd.rootName, hd.inputPath,
                                 hd.userOutputName, hd.dirs)]
    IN ReadEntries(f, r4.rd, cap, left - 1, Append(tasks, task), hd)

\* a version check that lets newer containers through
VersionAtLeast(v) == v >= Version

\* string(magicBytes[:]) != Magic and versionByte != Version, negated
MagicOK(bytes) == bytes = Magic
VersionOK(v) == v = Version

\* readArchiveHeader(f, decompressedName) on a container holding the bytes f
ReadArchiveHeader(f, inputPath, decompressedName, dirs, cap) ==
    LET m == ReadFull(f, NewReader, 4, <<>>, cap) IN
    IF ~m.ok \/ ~MagicOK(m.bytes) THEN ParseError(0) ELSE
    LET v == ReadFull(f, m.rd, 1, <<>>, cap) IN
    IF ~v.ok \/ ~VersionOK(BigEndianValue(v.bytes)) THEN ParseError(0) ELSE
    LET t == ReadFull(f, v.rd, 1, <<>>, cap) IN
    IF ~t.ok THEN ParseError(0) ELSE
    LET l == ReadFull(f, t.rd, 2, <<>>, cap) IN
    IF ~l.ok THEN ParseError(0) ELSE
    LET r == ReadFull(f, l.rd, BigEndianValue(l.bytes), <<>>, cap) IN
    IF ~r.ok THEN ParseError(0) ELSE
    LET n == ReadFull(f, r.rd, 4, <<>>, cap) IN
    IF ~n.ok THEN ParseError(0) ELSE
    LET kind == BigEndianValue(t.bytes)
        hd == [archiveType |-> kind, rootName |-> r.bytes,
               outputDir |-> OutputDir(kind, r.bytes, decompressedName),
               inputPath |-> inputPath, userOutputName |-> decompressedName,
               dirs |-> dirs]
    IN ReadEntries(f, n.rd, cap, BigEndianValue(n.bytes), <<>>, hd)

\* --------------------------------------------------------------- extraction
NoErr == [kind |-> "nil", path |-> <<>>]

Err(kind, path) == [kind |-> kind, path |-> path]

\* offsets that advance by the original sizes
RECURSIVE OffsetsByOriginal(_, _)
OffsetsByOriginal(currentOffset, tasks) ==
    IF tasks = <<>> THEN <<>>
    ELSE <<currentOffset>>
             \o OffsetsByOriginal(currentOffset + tasks[1].OriginalSize, Tail(tasks))

\* offsets that do not advance over a task of original size zero
RECURSIVE OffsetsSkippingEmpty(_, _)
OffsetsSkippingEmpty(currentOffset, tasks) ==
    IF tasks = <<>> THEN <<>>
    ELSE <<currentOffset>>
             \o OffsetsSkippingEmpty(
                    currentOffset + (IF tasks[1].OriginalSize = 0 THEN 0
                                     ELSE tasks[1].CompressedSize),
                    Tail(tasks))

\* the offsets decompressFiles assigns: a running sum of the compressed sizes
\* (sizes and offsets far below the width of the integers)
RECURSIVE OffsetsFrom(_, _)
OffsetsFrom(currentOffset, tasks) ==
    IF tasks = <<>> THEN <<>>
    ELSE <<currentOffset>>
             \o OffsetsFrom(currentOffset + tasks[1].CompressedSize, Tail(tasks))

\* ---------------------------------------------------------- 64-bit integers
\* a uint64 or an int64 is the eight bytes binary.Read takes it from, most
\* significant first; int64(v) of a uint64 v keeps the eight bytes, and the
\* first byte's top bit becomes the sign
\* a + b of two int64, from byte k down: the sum wraps around at 64 bits
RECURSIVE AddWithCarry(_, _, _, _)
AddWithCarry(a, b, k, carry) ==
    IF k = 0 THEN <<>>
    ELSE LET s == a[k] + b[k] + carry
         IN AddWithCarry(a, b, k - 1, s \div 256) \o <<s % 256>>

\* a < b of two uint64
RECURSIVE LessU64(_, _)
LessU64(a, b) ==
    IF a = <<>> THEN FALSE
    ELSE IF a[1] # b[1] THEN a[1] < b[1]
    ELSE LessU64(Tail(a), Tail(b))

\* a < b of two int64
Less64(a, b) ==
    IF (a[1] >= 128) # (b[1] >= 128) THEN a[1] >= 128 ELSE LessU64(a, b)

\* the offsets decompressFiles assigns, at the width of the code:
\* offsets[i] = currentOffset; currentOffset += int64(task.CompressedSize)
RECURSIVE OffsetsFrom64(_, _)
OffsetsFrom64(currentOffset, sizes) ==
    IF sizes = <<>> THEN <<>>
    ELSE <<currentOffset>>
             \o OffsetsFrom64(AddWithCarry(currentOffset, sizes[1], 8, 0),
                              Tail(sizes))

\* io.NewSectionReader(f, offset, n): the bytes of f in [offset, offset+n)
SectionBytes(f, offset, n) ==
    IF offset >= Len(f) \/ n <= 0 THEN <<>>
    ELSE SubSeq(f, offset + 1, Min(offset + n, Len(f)))

\* the error of the copy without the size check
CopyErrorOnly(r, task) ==
    IF r.err = "invalid" THEN Err("copy", task.DestPath) ELSE NoErr

\* the error of the copy: io.CopyN(pw, zr, OriginalSize) and the size check
CopyError(r, task) ==
    IF r.err = "invalid" THEN Err("copy", task.DestPath)
    ELSE IF Min(Len(r.data), task.OriginalSize) # task.OriginalSize
        THEN Err("size", task.DestPath)
    ELSE NoErr

\* decompressFileStreaming(r, task) where r yields the bytes sr: the error
\* returned, the file system left behind and the bytes reported to the observer
DecompressFileStreaming(sr, task, dirs, files) ==
    IF ~MkdirAllOK(files, Dir(task.DestPath))
        THEN [err |-> Err("parentdir", task.DestPath), dirs |-> dirs, files |-> files,
              reported |-> 0]
    ELSE LET ds == MkdirAll(dirs, Dir(task.DestPath)) IN
    IF ~CreateOK(ds, task.DestPath)
        THEN [err |-> Err("create", task.DestPath), dirs |-> ds, files |-> files,
              reported |-> 0]
    ELSE IF task.OriginalSize = 0
        THEN [err |-> NoErr, dirs |-> ds,
              files |-> PutFile(files, Clean(task.DestPath), <<>>), reported |-> 0]
    ELSE LET r == LZ4Read(sr, task.OriginalSize)
             written == Take(r.data, task.OriginalSize)
         IN [err |-> CopyError(r, task), dirs |-> ds,
             files |-> PutFile(files, Clean(task.DestPath), written),
             reported |-> Len(written)]

\* ---------------------------------------------------------------- observer
\* The observer: running is progressRunning, total is totalSize, bytes is
\* totalBytesProcessed, done is the state of the channel the variable done
\* refers to ("nil", "open", "closed", or "panic" after a close that panics),
\* started counts the go logger() statements, live the logger goroutines that
\* select on the current channel, stale those that may be blocked on an
\* earlier channel, which is closed, closed counts the close(done) statements
NoObserver ==
    [running |-> FALSE, total |-> 0, bytes |-> 0, started |-> 0,
     done |-> "nil", live |-> 0, stale |-> 0, closed |-> 0]

\* an Init that starts over whether the observer runs or not
ProgressInitAgain(p, size) ==
    [running |-> TRUE, total |-> IF size = 0 THEN 1 ELSE size, bytes |-> 0,
     started |-> p.started + 1, done |-> "open", live |-> 1,
     stale |-> p.stale + p.live, closed |-> p.closed]

\* progress.Init(size): a no-op while the observer is running
ProgressInit(p, size) ==
    IF p.running THEN p
    ELSE [running |-> TRUE, total |-> IF size = 0 THEN 1 ELSE size, bytes |-> 0,
          started |-> p.started + 1, done |-> "open", live |-> 1,
          stale |-> p.stale + p.live, closed |-> p.closed]

\* close(c): closing a nil or a closed channel panics
CloseChan(c) == IF c = "open" THEN "closed" ELSE "panic"

\* a Stop that does nothing
ProgressStopSkipped(p) == p

\* a Stop that closes the channel whether the observer runs or not
ProgressStopUnguarded(p) ==
    [p EXCEPT !.done = CloseChan(@), !.running = FALSE, !.closed = @ + 1]

\* progress.Stop()
ProgressStop(p) ==
    IF p.running
        THEN [p EXCEPT !.done = CloseChan(@), !.running = FALSE, !.closed = @ + 1]
        ELSE p

\* an AddBytes that counts every chunk twice
AddBytesTwice(p, n) == IF n > 0 THEN [p EXCEPT !.bytes = @ + 2 * n] ELSE p

\* progress.AddBytes(n)
AddBytes(p, n) == IF n > 0 THEN [p EXCEPT !.bytes = @ + n] ELSE p

\* the second goroutine before its first call and between its calls
PeerIdle == [at |-> "idle", calls |-> 0, stops |-> 0]

\* the sizes of the second goroutine's inputs, and the bytes one Write of its
\* progress.Writer reports
PeerSizes == {0, 2}
PeerBytes == 2

\* ------------------------------------------------------------------- inputs
\* buf := make([]byte, 32*1024) in compressFileStreaming
ReadBufSize == 32768

\* what one f.Read(buf) of a source file may return at most: a single byte,
\* or the whole buffer
ReadSizes == {1, ReadBufSize}

\* relative paths of the source tree: "a", "b", "d/a"
SrcPaths == {<<97>>, <<98>>, <<100, 47, 97>>}

\* the bytes of a source file of length n at relative path p
Content(p, n) == [i \in 1..n |-> (p[1] + Len(p) + i) % 256]

\* the directory given to Compress ("r") and the single files ("f", "s/f")
DirInput == <<114>>
FileInputs == {<<102>>, <<115, 47, 102>>}

\* the container path ("x.agcp") and the user's output target ("o")
ArchivePath == <<120>> \o AgcpExt
Target == <<111>>

\* the entry lists collectDirEntries can return, in any enumeration order
DirEntryLists ==
    UNION {{[i \in 1..n |-> [RelPath |-> ps[i], FilePath |-> Join(DirInput, ps[i]),
                             Data |-> Content(ps[i], ns[i])]] :
               ps \in {q \in [1..n -> SrcPaths] :
                          \A i, j \in 1..n : i # j => q[i] # q[j]},
               ns \in [1..n -> {2 * w : w \in 0..MaxData}]} : n \in 0..MaxFiles}

\* what the user may have put where the restore is to go: the target as a
\* directory; also a regular file where the directory "o/d" is needed; also
\* directories where the files "o/a" and "o/b" are to be created
PreparedTargets ==
    {[name |-> "dir", dirs |-> {Dot, Target}, files |-> <<>>],
     [name |-> "fileAt", dirs |-> {Dot, Target},
      files |-> (Join(Target, <<100>>) :> <<1>>)],
     [name |-> "dirAt",
      dirs |-> {Dot, Target, Join(Target, <<97>>), Join(Target, <<98>>)},
      files |-> <<>>]}

\* the amounts a single Read of the container file may return
ReadCaps == {5, 16, BufSize}

\* ------------------------------------------------------------------- state
VARIABLES
    pc,            \* where the caller is: idle, slots, stream, built, aborted,
                   \* parsed, spawn, done
    input,         \* the path given to Compress
    entries,       \* the ordered entry list of the build
    out,           \* the bytes of the container file, none while there is no file
    wpos,          \* the Writer's file position
    entryOffsets,  \* the slot offset recorded for each entry
    bi,            \* the index of the build loops
    startPos,      \* startPos of each entry streamed so far
    endPos,        \* endPos of each entry streamed so far
    scenario,      \* what was done to the container or the target before the restore
    userTarget,    \* decompressedName given to Decompress
    semCap,        \* capacity of the semaphore: runtime.NumCPU(), 0 before it is made
    fsDirs,        \* directories of the destination file system
    fsFiles,       \* regular files of the destination file system
    hdr,           \* what readArchiveHeader returned, with its locals
    offsets,       \* offsets[] of decompressFiles
    si,            \* number of workers started
    wk,            \* per worker: its state, its task and offset arguments
    sem,           \* slots of the semaphore in use
    wg,            \* the WaitGroup counter
    errCh,         \* the errors queued on the error channel
    result,        \* what Compress and Decompress returned
    prog,          \* the progress observer
    peer,          \* a second goroutine that calls Compress or Decompress on
                   \* paths of its own: where it is, how many calls it began
                   \* and how many Stop calls it made
    wide           \* an entry table whose compressed sizes are kept as the
                   \* eight bytes read, and the offsets assigned from it

vars == <<pc, input, entries, out, wpos, entryOffsets, bi, startPos, endPos,
          scenario, userTarget, semCap, fsDirs, fsFiles, hdr, offsets, si, wk,
          sem, wg, errCh, result, prog, peer, wide>>

\* what the build and what the restore works on; a step of either leaves the
\* second goroutine where it is
buildVars == <<input, entries, out, wpos, entryOffsets, bi, startPos, endPos,
               peer, wide>>
restoreVars == <<userTarget, hdr, offsets, si, wk, sem, wg, errCh, peer, wide>>
\* everything a call works on but the observer
callVars == <<pc, input, entries, out, wpos, entryOffsets, bi, startPos, endPos,
              scenario, userTarget, semCap, fsDirs, fsFiles, hdr, offsets, si,
              wk, sem, wg, errCh, result>>
fsVars == <<fsDirs, fsFiles>>

inKind == IF input = DirInput THEN ArchiveDir ELSE ArchiveFile
\* the input path itself as the root name
rootNameWhole == input

\* rootName = filepath.Base(input)
rootName == Base(input)
N == Len(entries)

NoHeader ==
    [err |-> FALSE, tasks |-> <<>>, startOffset |-> 0, outputDir |-> <<>>,
     archiveType |-> ArchiveDir, decoded |-> 0, offset |-> 0, buffered |-> 0]

\* no entry table has been read
NoTable == [at |-> "none", startOffset |-> <<>>, sizes |-> <<>>, offsets |-> <<>>]

Init ==
    /\ pc = "idle"
    /\ \/ /\ input = DirInput
          /\ entries \in DirEntryLists
       \/ /\ input \in FileInputs
          /\ \E n \in {2 * w : w \in 0..MaxData} :
                entries = <<[RelPath |-> <<>>, FilePath |-> input,
                             Data |-> Content(input, n)]>>
    /\ out = <<>>
    /\ wpos = 0
    /\ entryOffsets = <<>>
    /\ bi = 0
    /\ startPos = <<>>
    /\ endPos = <<>>
    /\ scenario = "no"
    /\ userTarget = <<>>
    /\ semCap = 0
    /\ fsDirs = {Dot}
    /\ fsFiles = <<>>
    /\ hdr = NoHeader
    /\ offsets = <<>>
    /\ si = 0
    /\ wk = <<>>
    /\ sem = 0
    /\ wg = 0
    /\ errCh = <<>>
    /\ result = "running"
    /\ prog = NoObserver
    /\ peer = PeerIdle
    /\ wide = NoTable

\* ------------------------------------------------------------ build actions
\* Compress(input, output) up to the placeholder loop of compressFiles: the
\* entry list is fixed, the observer started, the output created and the
\* header written
CompressBegin ==
    /\ pc = "idle"
    /\ prog' = ProgressInit(prog, CalculateTotalSize(entries))
    /\ out' = HeaderBytes(inKind, rootName, N)
    /\ wpos' = Len(HeaderBytes(inKind, rootName, N))
    /\ bi' = 1
    /\ pc' = "slots"
    /\ UNCHANGED <<input, entries, entryOffsets, startPos, endPos, scenario,
                   semCap, result>>
    /\ UNCHANGED <<restoreVars, fsVars>>

\* one round of the placeholder loop
WritePlaceholder ==
    /\ pc = "slots"
    /\ bi <= N
    /\ entryOffsets' = Append(entryOffsets, wpos)
    /\ out' = WriteAt(out, wpos, Zeros(PlaceholderSize(entries[bi].RelPath)))
    /\ wpos' = wpos + PlaceholderSize(entries[bi].RelPath)
    /\ bi' = bi + 1
    /\ UNCHANGED <<pc, input, entries, startPos, endPos, scenario, semCap,
                   result, prog>>
    /\ UNCHANGED <<restoreVars, fsVars>>

\* a placeholder loop left one round early
SlotsDoneEarly(i, n) == i >= n

\* the range loop over entries has run all its rounds
SlotsDone(i, n) == i > n

\* the placeholder loop is over: the compress loop starts
BeginStreaming ==
    /\ pc = "slots"
    /\ SlotsDone(bi, N)
    /\ pc' = "stream"
    /\ bi' = 1
    /\ UNCHANGED <<input, entries, out, wpos, entryOffsets, startPos, endPos,
                   scenario, semCap, result, prog>>
    /\ UNCHANGED <<restoreVars, fsVars>>

\* a patch written where the file position is, without the seek to the slot
PatchOffsetHere(slotOffset, pos) == pos

\* updateEntryMetadata: f.Seek(offset, io.SeekStart) before the record is
\* written; pos is the file position after the payload
PatchOffset(slotOffset, pos) == slotOffset

\* one round of the compress loop: stream the entry, patch its slot, seek back
CompressEntry ==
    /\ pc = "stream"
    /\ bi <= N
    /\ \E rd \in ReadSizes :
       LET e == entries[bi]
           c == CompressFileStreaming(e.Data, rd)
           end == wpos + Len(c.written)
           size == CompressedSizeOf(wpos, end)
           rec == EntryRecord(e.RelPath, c.originalSize, size)
       IN /\ startPos' = Append(startPos, wpos)
          /\ endPos' = Append(endPos, end)
          /\ out' = WriteAt(WriteAt(out, wpos, c.written),
                            PatchOffset(entryOffsets[bi], end), rec)
          /\ wpos' = PosAfterPatch(end, entryOffsets[bi] + Len(rec))
          /\ prog' = AddBytes(prog, SumSeq(c.reported))
    /\ bi' = bi + 1
    /\ UNCHANGED <<pc, input, entries, entryOffsets, scenario, semCap, result>>
    /\ UNCHANGED <<restoreVars, fsVars>>

\* compressFiles returns nil; Compress's deferred progress.Stop() runs
CompressReturn ==
    /\ pc = "stream"
    /\ bi > N
    /\ pc' = "built"
    /\ prog' = ProgressStop(prog)
    /\ UNCHANGED <<input, entries, out, wpos, entryOffsets, bi, startPos,
                   endPos, scenario, semCap, result>>
    /\ UNCHANGED <<restoreVars, fsVars>>

\* the steps of one round of the compress loop that can return an error, in
\* the order the round takes them
CompressSteps ==
    <<"seekStart", "open", "stat", "read", "seekEnd", "seekMeta",
      "writeRelPathLen", "writeRelPath", "writeOriginalSize",
      "writeCompressedSize", "seekBack">>

StepIndex(step) == CHOOSE k \in DOMAIN CompressSteps : CompressSteps[k] = step

\* the payload bytes of the entry that are in the file when step fails: none
\* before the codec's writer exists, its closing bytes (the deferred
\* zw.Close()) when the source cannot be examined or read, all of them later
PayloadAtFailure(data, step) ==
    IF StepIndex(step) <= StepIndex("open") THEN <<>>
    ELSE IF StepIndex(step) <= StepIndex("read") THEN ZwClose(NewZw).out
    ELSE CompressFileStreaming(data, ReadBufSize).written

\* the part of the entry's record updateEntryMetadata has written when step
\* fails
PatchAtFailure(relPath, originalSize, compressedSize, step) ==
    LET rec == EntryRecord(relPath, originalSize, compressedSize)
        k == StepIndex(step)
    IN IF k <= StepIndex("writeRelPathLen") THEN <<>>
       ELSE IF k = StepIndex("writeRelPath") THEN Take(rec, 2)
       ELSE IF k = StepIndex("writeOriginalSize") THEN Take(rec, 2 + Len(relPath))
       ELSE IF k = StepIndex("writeCompressedSize") THEN Take(rec, 2 + Len(relPath) + 8)
       ELSE rec

\* an error path that removes the unfinished container
AbortedFileRemoved(f) == <<>>

\* the container file after an error return of compressFiles: the deferred
\* f.Close() and nothing else
AbortedFile(f) == f

\* a step of the placeholder loop fails: compressFiles returns the error,
\* Compress's deferred progress.Stop() runs
PlaceholderFails ==
    /\ pc = "slots"
    /\ bi <= N
    /\ out' = AbortedFile(out)
    /\ result' = Err("placeholder", entries[bi].FilePath)
    /\ pc' = "aborted"
    /\ prog' = ProgressStop(prog)
    /\ UNCHANGED <<input, entries, wpos, entryOffsets, bi, startPos, endPos,
                   scenario, semCap>>
    /\ UNCHANGED <<restoreVars, fsVars>>

\* a step of the compress loop fails on entry bi: compressFiles returns the
\* error, Compress's deferred progress.Stop() runs
CompressEntryFails ==
    /\ pc = "stream"
    /\ bi <= N
    /\ \E k \in DOMAIN CompressSteps :
          LET step == CompressSteps[k]
              e == entries[bi]
              payload == PayloadAtFailure(e.Data, step)
              c == CompressFileStreaming(e.Data, ReadBufSize)
              patch == PatchAtFailure(e.RelPath, c.originalSize,
                           CompressedSizeOf(wpos, wpos + Len(c.written)), step)
          IN /\ out' = AbortedFile(WriteAt(WriteAt(out, wpos, payload),
                                           entryOffsets[bi], patch))
             /\ result' = Err(step, e.FilePath)
    /\ pc' = "aborted"
    /\ prog' = ProgressStop(prog)
    /\ UNCHANGED <<input, entries, wpos, entryOffsets, bi, startPos, endPos,
                   scenario, semCap>>
    /\ UNCHANGED <<restoreVars, fsVars>>

\* a build that clears the output path before it looks at the input
OutputClearedFirst(f) == <<>>

\* the file at the output path when os.Stat(input) fails: Compress returns
\* before compressFiles, which removes and creates the output, is called
OutputAfterStatError(f) == f

\* Compress(input, output) with an input path that does not exist, while
\* there is nothing at the output path or the container of an earlier build
CompressMissing ==
    /\ pc \in {"idle", "built"}
    /\ out' = OutputAfterStatError(out)
    /\ result' = Err("input", <<110>>)
    /\ pc' = "aborted"
    /\ UNCHANGED <<input, entries, wpos, entryOffsets, bi, startPos, endPos,
                   scenario, semCap, prog>>
    /\ UNCHANGED <<restoreVars, fsVars>>

\* Decompress(input, decompressedName) with a container path that does not
\* exist: os.Open fails and Decompress returns the error
DecompressMissing ==
    /\ pc \in {"idle", "built"}
    /\ \E target \in {<<>>, Target} : userTarget' = target
    /\ result' = Err("container", <<110>>)
    /\ pc' = "done"
    /\ UNCHANGED <<hdr, offsets, si, wk, sem, wg, errCh, scenario, semCap, prog>>
    /\ UNCHANGED <<buildVars, fsVars>>

\* a logger goroutine receives from a closed done channel and returns
SamplerExit ==
    /\ \/ /\ prog.stale > 0
          /\ prog' = [prog EXCEPT !.stale = @ - 1]
       \/ /\ prog.live > 0
          /\ prog.done = "closed"
          /\ prog' = [prog EXCEPT !.live = @ - 1]
    /\ UNCHANGED <<pc, scenario, semCap, result>>
    /\ UNCHANGED <<buildVars, restoreVars, fsVars>>

\* a logger goroutine started for an earlier call enters its select only
\* after a later Init and reads the new done channel
SamplerRereads ==
    /\ prog.stale > 0
    /\ prog.done = "open"
    /\ prog' = [prog EXCEPT !.stale = @ - 1, !.live = @ + 1]
    /\ UNCHANGED <<pc, scenario, semCap, result>>
    /\ UNCHANGED <<buildVars, restoreVars, fsVars>>

\* the second goroutine's call reaches progress.Init
PeerInit ==
    /\ peer.at = "idle"
    /\ peer.calls < MaxPeerCalls
    /\ \E size \in PeerSizes : prog' = ProgressInit(prog, size)
    /\ peer' = [peer EXCEPT !.at = "streaming", !.calls = @ + 1]
    /\ UNCHANGED <<callVars, wide>>

\* the second goroutine's call streams data of its own through progress.Writer
PeerAddBytes ==
    /\ peer.at = "streaming"
    /\ prog' = AddBytes(prog, PeerBytes)
    /\ peer' = [peer EXCEPT !.at = "streamed"]
    /\ UNCHANGED <<callVars, wide>>

\* the second goroutine's call returns: its deferred progress.Stop() runs
PeerStop ==
    /\ peer.at \in {"streaming", "streamed"}
    /\ prog' = ProgressStop(prog)
    /\ peer' = [peer EXCEPT !.at = "idle", !.stops = @ + 1]
    /\ UNCHANGED <<callVars, wide>>

\* Init and Stop hold progressMutex from entry to return, so the calls of any
\* number of goroutines take effect one after the other; a goroutine may call
\* either at any time, Stop before any Init and Stop after Stop included
StrayInit ==
    /\ peer.at = "idle"
    /\ peer.calls + peer.stops < MaxStrayCalls
    /\ \E size \in PeerSizes : prog' = ProgressInit(prog, size)
    /\ peer' = [peer EXCEPT !.calls = @ + 1]
    /\ UNCHANGED <<callVars, wide>>

StrayStop ==
    /\ peer.at = "idle"
    /\ peer.calls + peer.stops < MaxStrayCalls
    /\ prog' = ProgressStop(prog)
    /\ peer' = [peer EXCEPT !.stops = @ + 1]
    /\ UNCHANGED <<callVars, wide>>

\* ------------------------------------------------------------ environment
\* before the restore the user creates the target directory, possibly with
\* something in it
PrepareTarget ==
    /\ pc = "built"
    /\ scenario = "no"
    /\ fsDirs = {Dot}
    /\ \E fs \in PreparedTargets :
          /\ fsDirs' = fs.dirs
          /\ fsFiles' = fs.files
          /\ scenario' = fs.name
    /\ UNCHANGED <<pc, semCap, result, prog>>
    /\ UNCHANGED <<buildVars, restoreVars>>

\* root names and relative paths such a container can store: none, "f";
\* none, "a", "d/a", "../a"
ForeignRootNames == {<<>>, <<102>>}
ForeignRelPaths == {<<>>, <<97>>, <<100, 47, 97>>, <<46, 46, 47, 97>>}

\* the kind bytes such a container can carry: the two kinds of the format and
\* a byte that is neither
ForeignKinds == {ArchiveFile, ArchiveDir, 2}

\* a one-entry container made by another writer of the format is put at the
\* container path
Receive ==
    /\ pc = "idle"
    /\ \E kind \in ForeignKinds, root \in ForeignRootNames, rel \in ForeignRelPaths,
          n \in {2 * w : w \in 0..MaxData} :
          LET data == Content(<<102>>, n)
              c == CompressFileStreaming(data, ReadBufSize)
          IN /\ out' = HeaderBytes(kind, root, 1)
                          \o EntryRecord(rel, c.originalSize, Len(c.written))
                          \o c.written
             /\ input' = root
             /\ entries' = <<[RelPath |-> rel, FilePath |-> root, Data |-> data]>>
    /\ scenario' = "foreign"
    /\ pc' = "built"
    /\ UNCHANGED <<wpos, entryOffsets, bi, startPos, endPos, semCap, result, prog>>
    /\ UNCHANGED <<restoreVars, fsVars>>

\* compressed sizes an entry record can hold: 2, 2^63 - 1, 2^63, 2^64 - 1
Sizes64 ==
    {<<0, 0, 0, 0, 0, 0, 0, 2>>,
     <<127, 255, 255, 255, 255, 255, 255, 255>>,
     <<128, 0, 0, 0, 0, 0, 0, 0>>,
     <<255, 255, 255, 255, 255, 255, 255, 255>>}

\* readArchiveHeader returns the table of a directory container made elsewhere:
\* n records with these compressed sizes, the payload starting behind them
ReceiveTable ==
    /\ pc = "idle"
    /\ wide.at = "none"
    /\ \E n \in 1..MaxFiles : \E sizes \in [1..n -> Sizes64] :
          wide' = [at |-> "parsed",
                   startOffset |-> BigEndian(Len(HeaderBytes(ArchiveDir, <<>>, n))
                                                + n * PlaceholderSize(<<>>), 8),
                   sizes |-> sizes,
                   offsets |-> <<>>]
    /\ UNCHANGED <<callVars, prog, peer>>

\* the offset loop of decompressFiles
AssignOffsets ==
    /\ wide.at = "parsed"
    /\ wide' = [wide EXCEPT !.at = "assigned",
                            !.offsets = OffsetsFrom64(wide.startOffset, wide.sizes)]
    /\ UNCHANGED <<callVars, prog, peer>>

\* before the restore of such a container the user creates the target as an
\* empty directory
MakeTargetDir ==
    /\ pc = "built"
    /\ scenario = "foreign"
    /\ fsDirs' = fsDirs \cup {Target}
    /\ scenario' = "foreignDir"
    /\ UNCHANGED <<pc, fsFiles, semCap, result, prog>>
    /\ UNCHANGED <<buildVars, restoreVars>>

PayloadStart == IF startPos = <<>> THEN Len(out) ELSE startPos[1]

OriginalSizeAt(i) == entryOffsets[i] + 2 + Len(entries[i].RelPath)
CompressedSizeAt(i) == OriginalSizeAt(i) + 8

Damaged(bytes, how) ==
    /\ pc = "built"
    /\ scenario = "no"
    /\ fsDirs = {Dot}
    /\ bytes # out
    /\ out' = bytes
    /\ scenario' = how
    /\ UNCHANGED <<pc, input, entries, wpos, entryOffsets, bi, startPos, endPos,
                   semCap, result, prog>>
    /\ UNCHANGED <<restoreVars, fsVars>>

\* a byte of the magic number is overwritten
CorruptMagic ==
    /\ pc = "built"
    /\ \E i \in 1..4, v \in {0, 255} : Damaged(WriteAt(out, i - 1, <<v>>), "magic")

\* the version byte is overwritten
CorruptVersion ==
    /\ pc = "built"
    /\ \E v \in {0, 2} : Damaged(WriteAt(out, 4, <<v>>), "version")

\* the container ends early, inside the header or the entry table
TruncateTable ==
    /\ pc = "built"
    /\ \E k \in 0..(PayloadStart - 1) : Damaged(Take(out, k), "table")

\* the container ends early, inside the payload of the last entry
TruncatePayload ==
    /\ pc = "built"
    /\ N > 0
    /\ \E k \in startPos[N]..(Len(out) - 1) : Damaged(Take(out, k), "payload")

\* the original-size field of an entry record is overwritten
TamperOriginalSize ==
    /\ pc = "built"
    /\ \E i \in 1..N, v \in 0..(2 * MaxData + 1) :
          Damaged(WriteAt(out, OriginalSizeAt(i), BigEndian(v, 8)), "original")

\* the compressed-size field of an entry record is overwritten
TamperCompressedSize ==
    /\ pc = "built"
    /\ \E i \in 1..N, d \in {-1, 1} :
          /\ endPos[i] - startPos[i] + d >= 0
          /\ Damaged(WriteAt(out, CompressedSizeAt(i),
                             BigEndian(endPos[i] - startPos[i] + d, 8)),
                     "compressed")

\* ---------------------------------------------------------- restore actions
\* Decompress(input, decompressedName): the container is opened and
\* readArchiveHeader runs; on an error Decompress returns it
ReadHeader ==
    /\ pc = "built"
    /\ \E target \in {<<>>, Target}, cap \in ReadCaps :
          \* a restore without a target is one of a container as built, run
          \* in a fresh working directory
          /\ target = <<>> => fsDirs = {Dot} /\ scenario \in {"no", "foreign"}
          /\ LET h == ReadArchiveHeader(out, ArchivePath, target, fsDirs, cap)
             IN /\ userTarget' = target
                /\ hdr' = h
                /\ pc' = IF h.err THEN "done" ELSE "parsed"
                /\ result' = IF h.err THEN Err("header", <<>>) ELSE result
    /\ UNCHANGED <<offsets, si, wk, sem, wg, errCh, scenario, semCap, prog>>
    /\ UNCHANGED <<buildVars, fsVars>>

TotalOriginalSize(tasks) ==
    SumSeq([i \in 1..Len(tasks) |-> tasks[i].OriginalSize])

\* a pre-creation pass that ignores the error of os.MkdirAll
RECURSIVE PreCreateIgnoring(_, _, _)
PreCreateIgnoring(paths, dirs, files) ==
    IF paths = <<>> THEN [ok |-> TRUE, dirs |-> dirs, path |-> <<>>]
    ELSE IF ~MkdirAllOK(files, paths[1])
        THEN PreCreateIgnoring(Tail(paths), dirs, files)
    ELSE PreCreateIgnoring(Tail(paths), MkdirAll(dirs, paths[1]), files)

\* a pass that leaves the directories to the workers
PreCreateSkipping(paths, dirs, files) == [ok |-> TRUE, dirs |-> dirs, path |-> <<>>]

\* the directories decompressFiles creates before it starts a worker: the
\* root of a directory archive, then the parent of every destination
RECURSIVE PreCreate(_, _, _)
PreCreate(paths, dirs, files) ==
    IF paths = <<>> THEN [ok |-> TRUE, dirs |-> dirs, path |-> <<>>]
    ELSE IF ~MkdirAllOK(files, paths[1])
        THEN [ok |-> FALSE, dirs |-> dirs, path |-> paths[1]]
    ELSE PreCreate(Tail(paths), MkdirAll(dirs, paths[1]), files)

PreCreatePaths(h) ==
    (IF h.archiveType = ArchiveDir THEN <<h.outputDir>> ELSE <<>>)
        \o [i \in 1..Len(h.tasks) |-> Dir(h.tasks[i].DestPath)]

\* Decompress after the header: the observer is started, decompressFiles
\* assigns the offsets and creates the directories; when one cannot be
\* created it returns the error and Decompress stops the observer
PrepareExtractWith(cpus) ==
    /\ pc = "parsed"
    /\ LET pre == PreCreate(PreCreatePaths(hdr), fsDirs, fsFiles)
       IN /\ fsDirs' = pre.dirs
          /\ pc' = IF pre.ok THEN "spawn" ELSE "done"
          /\ result' = IF pre.ok THEN result ELSE Err("dir", pre.path)
          /\ prog' = IF pre.ok
                        THEN ProgressInit(prog, TotalOriginalSize(hdr.tasks))
                        ELSE ProgressStop(ProgressInit(prog,
                                              TotalOriginalSize(hdr.tasks)))
    /\ offsets' = OffsetsFrom(hdr.startOffset, hdr.tasks)
    /\ hdr' = [hdr EXCEPT !.offset = 0, !.buffered = 0]
    /\ wk' = [i \in 1..Len(hdr.tasks) |-> [state |-> "unborn", offset |-> 0]]
    /\ semCap' = cpus
    /\ UNCHANGED <<userTarget, si, sem, wg, errCh, fsFiles, scenario>>
    /\ UNCHANGED buildVars

PrepareExtract == \E cpus \in 1..MaxCPU : PrepareExtractWith(cpus)

\* the same on a machine with one CPU
PrepareExtractOne == PrepareExtractWith(1)

\* wg.Add(1); go func(task, offsets[i])
Spawn ==
    /\ pc = "spawn"
    /\ si < Len(hdr.tasks)
    /\ si' = si + 1
    /\ wg' = wg + 1
    /\ wk' = [wk EXCEPT ![si + 1] = [state |-> "waiting", offset |-> offsets[si + 1]]]
    /\ UNCHANGED <<pc, userTarget, hdr, offsets, sem, errCh, scenario, semCap,
                   result, prog>>
    /\ UNCHANGED <<buildVars, fsVars>>

\* a send on sem that finds the buffer full by one slot too late
SlotFreeOffByOne(used, cap) == used <= cap

\* sem <- struct{}{} can proceed: the buffer of the channel is not full
SlotFree(used, cap) == used < cap

\* sem <- struct{}{}
Acquire(i) ==
    /\ wk[i].state = "waiting"
    /\ SlotFree(sem, semCap)
    /\ sem' = sem + 1
    /\ wk' = [wk EXCEPT ![i].state = "running"]
    /\ UNCHANGED <<pc, userTarget, hdr, offsets, si, wg, errCh, scenario,
                   semCap, result, prog>>
    /\ UNCHANGED <<buildVars, fsVars>>

\* an unbuffered error channel
ErrChUnbuffered(tasks) == 0

\* errCh := make(chan error, len(tasks)): the capacity of the error channel
ErrChCap(tasks) == Len(tasks)

\* errCh <- err can proceed: nothing to send, or room in the channel
CanReport(err, ch, cap) == err # NoErr => Len(ch) < cap

\* the offset of a closure that reads offsets[i] through the loop variable
SharedOffset(own, offs, loopIndex) == offs[loopIndex]

\* the offset the worker reads: its own argument, passed by value at the go
\* statement
CapturedOffset(own, offs, loopIndex) == own

\* the worker opens the container, reads its section and runs
\* decompressFileStreaming; an error is sent on errCh
Extract(i) ==
    /\ wk[i].state = "running"
    /\ LET task == hdr.tasks[i]
           sr == SectionBytes(out, CapturedOffset(wk[i].offset, offsets, si),
                              task.CompressedSize)
           d == DecompressFileStreaming(sr, task, fsDirs, fsFiles)
       IN /\ CanReport(d.err, errCh, ErrChCap(hdr.tasks))
          /\ fsDirs' = d.dirs
          /\ fsFiles' = d.files
          /\ errCh' = IF d.err = NoErr THEN errCh ELSE Append(errCh, d.err)
          /\ prog' = AddBytes(prog, d.reported)
    /\ wk' = [wk EXCEPT ![i].state = "extracted"]
    /\ UNCHANGED <<pc, userTarget, hdr, offsets, si, sem, wg, scenario, semCap,
                   result>>
    /\ UNCHANGED buildVars

\* a worker that keeps its slot
SemKept(used) == used

\* <-sem: the slot is given back
SemRelease(used) == used - 1

\* the worker's deferred calls: f.Close(), <-sem, wg.Done()
Release(i) ==
    /\ wk[i].state = "extracted"
    /\ sem' = SemRelease(sem)
    /\ wg' = wg - 1
    /\ wk' = [wk EXCEPT ![i].state = "done"]
    /\ UNCHANGED <<pc, userTarget, hdr, offsets, si, errCh, scenario, semCap,
                   result, prog>>
    /\ UNCHANGED <<buildVars, fsVars>>

\* The worker step by step. After sem <- struct{}{} the worker calls os.Open,
\* which the system may refuse; the deferred calls run in the reverse order
\* of their defer statements: f.Close(), then <-sem, then wg.Done().
\* a worker that returns on a failed os.Open with its slot still taken
AfterOpenErrorNoRelease == "released"

\* where a worker goes on a failed os.Open: no handle to close, the deferred
\* <-sem is next
AfterOpenError == "closed"

\* os.Open(archivePath) succeeds
OpenContainer(i) ==
    /\ wk[i].state = "running"
    /\ wk' = [wk EXCEPT ![i].state = "open"]
    /\ UNCHANGED <<pc, userTarget, hdr, offsets, si, sem, wg, errCh, scenario,
                   semCap, result, prog>>
    /\ UNCHANGED <<buildVars, fsVars>>

\* os.Open(archivePath) fails: the error is sent on errCh and the worker returns
OpenFails(i) ==
    /\ wk[i].state = "running"
    /\ Len(errCh) < ErrChCap(hdr.tasks)
    /\ errCh' = Append(errCh, Err("open", hdr.tasks[i].DestPath))
    /\ wk' = [wk EXCEPT ![i].state = AfterOpenError]
    /\ UNCHANGED <<pc, userTarget, hdr, offsets, si, sem, wg, scenario, semCap,
                   result, prog>>
    /\ UNCHANGED <<buildVars, fsVars>>

\* io.NewSectionReader and decompressFileStreaming on the open handle
StreamEntry(i) ==
    /\ wk[i].state = "open"
    /\ LET task == hdr.tasks[i]
           sr == SectionBytes(out, wk[i].offset, task.CompressedSize)
           d == DecompressFileStreaming(sr, task, fsDirs, fsFiles)
       IN /\ CanReport(d.err, errCh, ErrChCap(hdr.tasks))
          /\ fsDirs' = d.dirs
          /\ fsFiles' = d.files
          /\ errCh' = IF d.err = NoErr THEN errCh ELSE Append(errCh, d.err)
          /\ prog' = AddBytes(prog, d.reported)
    /\ wk' = [wk EXCEPT ![i].state = "streamed"]
    /\ UNCHANGED <<pc, userTarget, hdr, offsets, si, sem, wg, scenario, semCap,
                   result>>
    /\ UNCHANGED buildVars

\* the deferred f.Close()
CloseHandle(i) ==
    /\ wk[i].state = "streamed"
    /\ wk' = [wk EXCEPT ![i].state = "closed"]
    /\ UNCHANGED <<pc, userTarget, hdr, offsets, si, sem, wg, errCh, scenario,
                   semCap, result, prog>>
    /\ UNCHANGED <<buildVars, fsVars>>

\* the deferred <-sem
ReleaseSlot(i) ==
    /\ wk[i].state = "closed"
    /\ sem' = SemRelease(sem)
    /\ wk' = [wk EXCEPT ![i].state = "released"]
    /\ UNCHANGED <<pc, userTarget, hdr, offsets, si, wg, errCh, scenario, semCap,
                   result, prog>>
    /\ UNCHANGED <<buildVars, fsVars>>

\* the deferred wg.Done()
WorkerDone(i) ==
    /\ wk[i].state = "released"
    /\ wg' = wg - 1
    /\ wk' = [wk EXCEPT ![i].state = "done"]
    /\ UNCHANGED <<pc, userTarget, hdr, offsets, si, sem, errCh, scenario, semCap,
                   result, prog>>
    /\ UNCHANGED <<buildVars, fsVars>>

\* a return that reports a failure when the closed queue holds nothing
FirstErrorOrNone(ch) == IF Len(ch) > 0 THEN ch[1] ELSE Err("none", <<>>)

\* a check of the queue that misses a single error
FirstErrorOfSeveral(ch) == IF Len(ch) > 1 THEN ch[1] ELSE NoErr

\* the error decompressFiles returns once errCh is closed
FirstError(ch) == IF Len(ch) > 0 THEN ch[1] ELSE NoErr

\* a wait that also ends as soon as an error is queued
DoneOrFailed(counter, ch) == counter = 0 \/ Len(ch) > 0

\* a wait that returns at once
NoWait(counter, ch) == TRUE

\* wg.Wait() returns: every worker has called wg.Done()
AllWorkersDone(counter, ch) == counter = 0

\* wg.Wait() returns, errCh is closed, the first error (if any) is returned
\* and Decompress's deferred progress.Stop() runs
Wait ==
    /\ pc = "spawn"
    /\ si = Len(hdr.tasks)
    /\ AllWorkersDone(wg, errCh)
    /\ result' = FirstError(errCh)
    /\ pc' = "done"
    /\ prog' = ProgressStop(prog)
    /\ UNCHANGED <<userTarget, hdr, offsets, si, wk, sem, wg, errCh, scenario,
                   semCap>>
    /\ UNCHANGED <<buildVars, fsVars>>

\* one worker from its go statement to its wg.Done(), no other worker
\* running in between
RunWorker ==
    /\ pc = "spawn"
    /\ si < Len(hdr.tasks)
    /\ LET i == si + 1
           task == hdr.tasks[i]
           sr == SectionBytes(out, offsets[i], task.CompressedSize)
           d == DecompressFileStreaming(sr, task, fsDirs, fsFiles)
       IN /\ CanReport(d.err, errCh, ErrChCap(hdr.tasks))
          /\ fsDirs' = d.dirs
          /\ fsFiles' = d.files
          /\ errCh' = IF d.err = NoErr THEN errCh ELSE Append(errCh, d.err)
          /\ prog' = AddBytes(prog, d.reported)
          /\ wk' = [wk EXCEPT ![i] = [state |-> "done", offset |-> offsets[i]]]
    /\ si' = si + 1
    /\ UNCHANGED <<pc, userTarget, hdr, offsets, sem, wg, scenario, semCap, result>>
    /\ UNCHANGED buildVars

Build ==
    \/ CompressBegin
    \/ WritePlaceholder
    \/ BeginStreaming
    \/ CompressEntry
    \/ CompressReturn

\* a build, then a restore of the container as built, or of one whose header
\* or entry table is damaged, by concurrent workers
Next ==
    \/ Build
    \/ PrepareTarget
    \/ CorruptMagic
    \/ CorruptVersion
    \/ TruncateTable
    \/ ReadHeader
    \/ PrepareExtract
    \/ Spawn
    \/ \E i \in DOMAIN wk : Acquire(i) \/ Extract(i) \/ Release(i)
    \/ Wait

Spec == Init /\ [][Next]_vars

\* a build, then a restore of a container whose sizes or payload are damaged,
\* the workers running one after the other
SeqNext ==
    \/ Build
    \/ TruncatePayload
    \/ TamperOriginalSize
    \/ TamperCompressedSize
    \/ ReadHeader
    \/ PrepareExtractOne
    \/ RunWorker
    \/ Wait

SeqSpec == Init /\ [][SeqNext]_vars

\* the restore of a one-entry container made elsewhere, with and without a
\* target, the target a directory or not there
ForeignNext ==
    \/ Receive
    \/ MakeTargetDir
    \/ ReadHeader
    \/ PrepareExtractOne
    \/ RunWorker
    \/ Wait

ForeignSpec == Init /\ [][ForeignNext]_vars

\* a build in which a step may fail
AbortNext ==
    \/ Build
    \/ PlaceholderFails
    \/ CompressEntryFails

AbortSpec == Init /\ [][AbortNext]_vars

\* calls on paths that do not exist, before or after a build and the
\* preparation of the target
MissingNext ==
    \/ Build
    \/ PrepareTarget
    \/ CompressMissing
    \/ DecompressMissing

MissingSpec == Init /\ [][MissingNext]_vars

\* a step of worker i, whichever it is
WorkerStep(i) == i \in DOMAIN wk /\ (Acquire(i) \/ Extract(i) \/ Release(i))

\* a build, then a restore of the container as built into a fresh
\* destination by concurrent workers
LiveNext ==
    \/ Build
    \/ ReadHeader
    \/ PrepareExtract
    \/ Spawn
    \/ \E i \in 1..MaxFiles : WorkerStep(i)
    \/ Wait

\* the caller goes on after readArchiveHeader: the step PrepareExtract, seen
\* on pc alone
CallerMoves == pc = "parsed" /\ pc' \in {"spawn", "done"}

\* worker i goes on when it can: the steps Acquire(i), Extract(i) and
\* Release(i), seen on wk alone
WorkerMoves(i) ==
    /\ i \in DOMAIN wk
    /\ \/ /\ wk[i].state = "waiting"
          /\ SlotFree(sem, semCap)
          /\ wk' = [wk EXCEPT ![i].state = "running"]
       \/ /\ wk[i].state = "running"
          /\ Len(errCh) < ErrChCap(hdr.tasks)
          /\ wk' = [wk EXCEPT ![i].state = "extracted"]
       \/ /\ wk[i].state = "extracted"
          /\ wk' = [wk EXCEPT ![i].state = "done"]

\* the caller runs on once the header is read, and the scheduler lets every
\* goroutine that can take a step take it in the end
LiveSpec ==
    /\ Init
    /\ [][LiveNext]_vars
    /\ WF_pc(CallerMoves)
    /\ WF_vars(Spawn)
    /\ \A i \in 1..MaxFiles : WF_wk(WorkerMoves(i))
    /\ WF_vars(Wait)

\* the next worker runs, seen on si alone
NextWorkerRuns == pc = "spawn" /\ si < Len(hdr.tasks) /\ si' = si + 1

\* wg.Wait() returns and decompressFiles with it: the step Wait, seen on pc
\* alone
WaitReturns ==
    pc = "spawn" /\ si = Len(hdr.tasks) /\ AllWorkersDone(wg, errCh) /\ pc' = "done"

\* a build in which a step may fail, then a restore of the container as
\* built or damaged, the workers one after the other, with the logger
\* goroutines of the observer
ObserverNext ==
    \/ Build
    \/ PlaceholderFails
    \/ CompressEntryFails
    \/ CorruptMagic
    \/ TruncatePayload
    \/ ReadHeader
    \/ PrepareExtractOne
    \/ RunWorker
    \/ Wait
    \/ SamplerExit
    \/ SamplerRereads

\* a restore that has begun runs to its return, and a logger that can return
\* does
ObserverSpec ==
    /\ Init
    /\ [][ObserverNext]_vars
    /\ WF_pc(CallerMoves)
    /\ WF_si(NextWorkerRuns)
    /\ WF_pc(WaitReturns)
    /\ WF_prog(SamplerExit)

\* a build and a restore while a second goroutine of the process makes calls
\* of its own on other paths
SharedNext ==
    \/ Build
    \/ ReadHeader
    \/ PrepareExtractOne
    \/ RunWorker
    \/ Wait
    \/ PeerInit
    \/ PeerAddBytes
    \/ PeerStop
    \/ SamplerExit
    \/ SamplerRereads

SharedSpec == Init /\ [][SharedNext]_vars

\* a build, then a restore into a fresh destination by concurrent workers
\* taken step by step, the container opening or not for each of them
PoolNext ==
    \/ Build
    \/ ReadHeader
    \/ PrepareExtract
    \/ Spawn
    \/ \E i \in DOMAIN wk : Acquire(i)
    \/ \E i \in DOMAIN wk : OpenContainer(i)
    \/ \E i \in DOMAIN wk : OpenFails(i)
    \/ \E i \in DOMAIN wk : StreamEntry(i)
    \/ \E i \in DOMAIN wk : CloseHandle(i)
    \/ \E i \in DOMAIN wk : ReleaseSlot(i)
    \/ \E i \in DOMAIN wk : WorkerDone(i)
    \/ Wait

PoolSpec == Init /\ [][PoolNext]_vars

\* Init and Stop called in any order, the samplers running as they may
StrayNext ==
    \/ StrayInit
    \/ StrayStop
    \/ SamplerExit
    \/ SamplerRereads

StraySpec == Init /\ [][StrayNext]_vars

\* the offsets of a table whose sizes use the whole width
WidthNext ==
    \/ ReceiveTable
    \/ AssignOffsets

WidthSpec == Init /\ [][WidthNext]_vars

\* --------------------------------------------------------------- properties
\* the container is the one Compress wrote: nothing damaged it
AsBuilt == scenario \in {"no", "dir", "fileAt", "dirAt"}

\* Compress has returned
Built == pc \in {"built", "parsed", "spawn", "done"}

\* the destination was absent or an empty directory when the restore began
FreshTarget == scenario \in {"no", "dir"}

\* a regular file holding data exists at p
HasFile(p, data) == p \in DOMAIN fsFiles /\ fsFiles[p] = data

\* by the container format: where record i of the entry table begins, the
\* sizes it stores, and where the table ends
RecordOffset(i) ==
    4 + 1 + 1 + 2 + Len(rootName) + 4
      + SumSeq([j \in 1..(i - 1) |-> 2 + Len(entries[j].RelPath) + 8 + 8])

StoredOriginalSize(i) ==
    LET at == RecordOffset(i) + 2 + Len(entries[i].RelPath)
    IN BigEndianValue(SubSeq(out, at + 1, at + 8))

StoredCompressedSize(i) ==
    LET at == RecordOffset(i) + 2 + Len(entries[i].RelPath) + 8
    IN BigEndianValue(SubSeq(out, at + 1, at + 8))

TableLength == RecordOffset(N + 1)

\* the sum of the stored compressed sizes of the first k entries
StoredBefore(k) == SumSeq([j \in 1..k |-> StoredCompressedSize(j)])

\* an error for task i is queued on the error channel
TaskFailed(i) ==
    \E k \in 1..Len(errCh) : errCh[k].path = hdr.tasks[i].DestPath

\* the file of task i holds the content of source file i
FileRestored(i) == HasFile(Clean(hdr.tasks[i].DestPath), entries[i].Data)

\* the restore went as far as its workers and has returned
Extracted == pc = "done" /\ ~hdr.err /\ wk # <<>> /\ si = Len(hdr.tasks)

\* C1: a directory tree built in any enumeration order, zero-byte files
\* included, and restored into a fresh target yields at every relative path a
\* file with the source's content, and the restore returns no error
RoundTripDirectory ==
    (pc = "done" /\ input = DirInput /\ FreshTarget)
        => /\ result = NoErr
           /\ \A i \in 1..N :
                 HasFile(Join(IF userTarget = <<>> THEN rootName ELSE userTarget,
                              entries[i].RelPath),
                         entries[i].Data)

RoundTripDirectoryWitness ==
    /\ pc = "done" /\ input = DirInput /\ scenario = "no" /\ userTarget = <<>>
    /\ N = 2
    /\ entries[1].RelPath = <<100, 47, 97>> /\ entries[1].Data = <<>>
    /\ entries[2].RelPath = <<97>> /\ Len(entries[2].Data) > 0
    /\ HasFile(<<114, 47, 100, 47, 97>>, <<>>)
    /\ HasFile(<<114, 47, 97>>, entries[2].Data)

\* C2: a single file built and restored with no target given yields, in the
\* current directory, a file named by the stored root name (the base name of
\* the source path) with the source's content
RoundTripSingleFile ==
    (pc = "done" /\ input \in FileInputs /\ scenario = "no" /\ userTarget = <<>>)
        => /\ result = NoErr
           /\ SubSeq(out, 9, 8 + BigEndianValue(SubSeq(out, 7, 8))) = <<102>>
           /\ HasFile(<<102>>, entries[1].Data)
           /\ DOMAIN fsFiles = {<<102>>}

RoundTripSingleFileWitness ==
    /\ pc = "done" /\ input = <<115, 47, 102>> /\ userTarget = <<>>
    /\ Len(entries[1].Data) > 0
    /\ HasFile(<<102>>, entries[1].Data)

\* C3: after a build the stored compressed sizes add up to the length of the
\* payload region, and entry i's payload is the bytes the compressor emitted
\* for it, lying right after the payloads of the entries before it
PayloadPartition ==
    (Built /\ AsBuilt)
        => /\ StoredBefore(N) = Len(out) - TableLength
           /\ \A i \in 1..N :
                 /\ startPos[i] = TableLength + StoredBefore(i - 1)
                 /\ endPos[i] = startPos[i] + StoredCompressedSize(i)
                 /\ SubSeq(out, startPos[i] + 1, endPos[i])
                       = CompressFileStreaming(entries[i].Data, ReadBufSize).written
                 /\ StoredOriginalSize(i) = Len(entries[i].Data)

PayloadPartitionWitness ==
    /\ pc = "built" /\ N = 2
    /\ entries[1].Data = <<>> /\ Len(entries[2].Data) > 0
    /\ StoredCompressedSize(1) > 0
    /\ StoredCompressedSize(2) > StoredCompressedSize(1)
    /\ endPos[2] = Len(out)

\* C4: the offset handed to the worker of task i is the payload start plus the
\* compressed sizes of the tasks before it in table order
OffsetInvariant ==
    \A i \in DOMAIN wk :
        wk[i].state # "unborn"
            => wk[i].offset = hdr.startOffset
                   + SumSeq([j \in 1..(i - 1) |-> hdr.tasks[j].CompressedSize])

OffsetInvariantWitness ==
    /\ Len(wk) = 2
    /\ wk[2].state = "running" /\ wk[1].state = "waiting"
    /\ wk[2].offset = hdr.startOffset + hdr.tasks[1].CompressedSize
    /\ hdr.tasks[1].CompressedSize > 0

\* C5: for a container the Writer produced and for every read-ahead of the
\* buffered reader, the payload start the parser returns, the raw position
\* less the bytes still buffered, is the length of header and entry table and
\* the offset at which the Writer wrote the first payload
PayloadStartOffset ==
    (AsBuilt /\ (pc \in {"parsed", "spawn"} \/ (pc = "done" /\ ~hdr.err)))
        => /\ hdr.startOffset = TableLength
           /\ N > 0 => hdr.startOffset = startPos[1]
           /\ pc = "parsed" => hdr.startOffset = hdr.offset - hdr.buffered

PayloadStartOffsetWitness ==
    /\ pc = "parsed" /\ AsBuilt /\ N = 2
    /\ hdr.buffered > 0
    /\ hdr.offset < Len(out)
    /\ hdr.startOffset = startPos[1]

\* C6: a container whose magic or version is wrong is refused before any
\* entry is decoded: no task, no worker, no directory or file at the
\* destination, and the progress observer is not started for the restore
BadMagicRejected ==
    scenario \in {"magic", "version"}
        => /\ pc \in {"built", "done"}
           /\ hdr.tasks = <<>> /\ hdr.decoded = 0
           /\ si = 0 /\ wk = <<>> /\ errCh = <<>>
           /\ fsDirs = {Dot} /\ fsFiles = <<>>
           /\ prog.started = 1 /\ ~prog.running
           /\ pc = "done" => hdr.err /\ result = Err("header", <<>>)

BadMagicRejectedWitness ==
    /\ pc = "done" /\ scenario = "version" /\ N = 2
    /\ out[5] = 2
    /\ SubSeq(out, 1, 4) = Magic
    /\ result = Err("header", <<>>)

\* C7: a container cut anywhere inside the header or the entry table is
\* refused with an error and no task list, whatever was decoded before the cut
TruncatedTableRejected ==
    scenario = "table"
        => /\ pc \in {"built", "done"}
           /\ hdr.tasks = <<>>
           /\ si = 0 /\ wk = <<>>
           /\ fsDirs = {Dot} /\ fsFiles = <<>>
           /\ pc = "done" => hdr.err /\ result = Err("header", <<>>)

TruncatedTableRejectedWitness ==
    /\ pc = "done" /\ scenario = "table"
    /\ hdr.decoded = 1 /\ N = 2
    /\ Len(out) > RecordOffset(2)
    /\ result = Err("header", <<>>)

\* C9: once the workers are started every task runs to completion before the
\* restore returns, failed siblings or not, and every entry that did not fail
\* itself has its file written with the right content
AllTasksAttempted ==
    (pc = "done" /\ ~hdr.err /\ si > 0 /\ AsBuilt)
        => /\ si = Len(hdr.tasks)
           /\ \A i \in DOMAIN wk : wk[i].state = "done"
           /\ \A i \in DOMAIN wk : ~TaskFailed(i) => FileRestored(i)
           /\ result = FirstError(errCh)

AllTasksAttemptedWitness ==
    /\ Extracted /\ scenario = "dirAt" /\ N = 2
    /\ Len(errCh) = 1
    /\ result # NoErr
    /\ TaskFailed(1) /\ ~TaskFailed(2) /\ FileRestored(2)
    /\ wk[1].state = "done" /\ wk[2].state = "done"

\* the bytes the codec yields from the range of task i when read to its end
DecodedBytes(i) ==
    LZ4Read(SectionBytes(out, offsets[i], hdr.tasks[i].CompressedSize),
            Len(out) + 1).data

\* task i was extracted and its recorded original size is not zero
ExtractedNonEmpty(i) == wk[i].state = "done" /\ hdr.tasks[i].OriginalSize # 0

\* C8 as stated: a task of non-zero original size whose range decodes to a
\* number of bytes other than that size, fewer or more, fails with an error
SizeMismatchDetected ==
    \A i \in DOMAIN wk :
        (ExtractedNonEmpty(i) /\ Len(DecodedBytes(i)) # hdr.tasks[i].OriginalSize)
            => TaskFailed(i)

\* C8: a task of non-zero original size whose range decodes to fewer bytes
\* than that size, a premature end included, fails with an error; when the
\* range decodes to more, the first bytes up to that size are written and the
\* task reports no error
ShortStreamDetected ==
    \A i \in DOMAIN wk :
        ExtractedNonEmpty(i)
            => /\ Len(DecodedBytes(i)) < hdr.tasks[i].OriginalSize
                    => \E k \in 1..Len(errCh) :
                          /\ errCh[k].path = hdr.tasks[i].DestPath
                          /\ errCh[k].kind \in {"copy", "size"}
               /\ Len(DecodedBytes(i)) > hdr.tasks[i].OriginalSize
                    => /\ ~TaskFailed(i)
                       /\ HasFile(Clean(hdr.tasks[i].DestPath),
                                  Take(DecodedBytes(i), hdr.tasks[i].OriginalSize))

ShortStreamDetectedWitness ==
    /\ pc = "done" /\ scenario = "original" /\ N = 2
    /\ ExtractedNonEmpty(2)
    /\ Len(DecodedBytes(2)) = 2 /\ hdr.tasks[2].OriginalSize = 3
    /\ errCh = <<Err("size", hdr.tasks[2].DestPath)>>
    /\ result = Err("size", hdr.tasks[2].DestPath)

\* what the destination held before the restore
TargetBefore == CHOOSE fs \in PreparedTargets : fs.name = scenario

\* the parent directory of task i's destination could not be created
ParentBlocked(i) == ~MkdirAllOK(TargetBefore.files, Dir(hdr.tasks[i].DestPath))

\* the output file of task i could not be created
FileBlocked(i) == IsDir(TargetBefore.dirs, hdr.tasks[i].DestPath)

\* C10 as stated: when the parent directory or the output file of an entry
\* cannot be created, every other entry is still extracted and the restore
\* returns only after all workers have finished
DestinationFailureTolerated ==
    (pc = "done" /\ ~hdr.err /\ scenario \in {"fileAt", "dirAt"})
        => \A i \in DOMAIN wk :
              /\ wk[i].state = "done"
              /\ ~(ParentBlocked(i) \/ FileBlocked(i)) => FileRestored(i)

\* C10: when the output file of an entry cannot be created, every other entry
\* is still extracted and the error is returned after all workers have
\* finished; when a parent directory cannot be created, the pre-creation pass
\* returns the error at once: no worker is started and no entry is extracted
DestinationFailure ==
    (pc = "done" /\ ~hdr.err /\ scenario \in {"fileAt", "dirAt"})
        => IF \E i \in DOMAIN wk : ParentBlocked(i)
              THEN /\ result.kind = "dir"
                   /\ si = 0 /\ errCh = <<>>
                   /\ \A i \in DOMAIN wk : wk[i].state = "unborn"
                   /\ fsFiles = TargetBefore.files
                   /\ ~prog.running
              ELSE /\ si = Len(hdr.tasks)
                   /\ \A i \in DOMAIN wk :
                         /\ wk[i].state = "done"
                         /\ FileBlocked(i) <=> TaskFailed(i)
                         /\ ~FileBlocked(i) => FileRestored(i)
                   /\ result = FirstError(errCh)
                   /\ (\E i \in DOMAIN wk : FileBlocked(i)) => result.kind = "create"

DestinationFailureWitness ==
    /\ pc = "done" /\ scenario = "fileAt" /\ N = 2
    /\ entries[1].RelPath = <<98>> /\ entries[2].RelPath = <<100, 47, 97>>
    /\ ParentBlocked(2) /\ ~ParentBlocked(1) /\ ~FileBlocked(1)
    /\ result = Err("dir", <<111, 47, 100>>)
    /\ wk[1].state = "unborn"
    /\ ~FileRestored(1)

\* C11 as stated: the restore's extraction returns success exactly when no
\* task recorded an error, and otherwise the first error queued by a task
FirstTaskErrorReturned ==
    (pc = "done" /\ ~hdr.err)
        => /\ result = NoErr <=> errCh = <<>>
           /\ result # NoErr => errCh # <<>> /\ result = errCh[1]

\* C11: once the directories are pre-created, extraction returns success
\* exactly when no task recorded an error and otherwise the first error a
\* task queued; when a directory cannot be pre-created it returns that error
\* and no task has run or recorded anything
FirstErrorReturned ==
    (pc = "done" /\ ~hdr.err)
        => IF si = 0 /\ result # NoErr
              THEN /\ result.kind = "dir"
                   /\ errCh = <<>>
                   /\ \A i \in DOMAIN wk : wk[i].state = "unborn"
              ELSE /\ result = NoErr <=> errCh = <<>>
                   /\ result # NoErr => errCh # <<>> /\ result = errCh[1]
                   /\ \A k \in 1..Len(errCh) :
                         /\ errCh[k] # NoErr
                         /\ \E i \in DOMAIN wk : errCh[k].path = hdr.tasks[i].DestPath

FirstErrorReturnedWitness ==
    /\ Extracted /\ Len(errCh) = 1 /\ N = 2
    /\ result = errCh[1]
    /\ result.kind = "create"
    /\ \E i \in DOMAIN wk : ~TaskFailed(i) /\ FileRestored(i)

\* the workers that hold a slot of the pool
Active == {i \in DOMAIN wk : wk[i].state \in {"running", "extracted"}}

\* C12: at every moment the workers that have acquired a slot and not yet
\* released it are at most the pool size; the others wait
BoundedPool ==
    /\ Cardinality(Active) <= semCap
    /\ Cardinality(Active) = sem
    /\ pc = "spawn" => semCap \in 1..MaxCPU

BoundedPoolWitness ==
    /\ semCap = 1 /\ Len(wk) = 2
    /\ wk[2].state = "running" /\ wk[1].state = "waiting"
    /\ sem = semCap

\* C13: no worker holds a slot, has opened the container or created a file
\* before the parent directory of every task's destination exists
DirsBeforeWork ==
    (\E i \in DOMAIN wk : wk[i].state \in {"running", "extracted", "done"})
        => \A j \in DOMAIN hdr.tasks : IsDir(fsDirs, Dir(hdr.tasks[j].DestPath))

DirsBeforeWorkWitness ==
    /\ Len(wk) = 2 /\ userTarget = Target /\ scenario = "no"
    /\ wk[1].state = "running" /\ wk[2].state = "waiting"
    /\ hdr.tasks[2].DestPath = <<111, 47, 100, 47, 97>>
    /\ <<111, 47, 100>> \in fsDirs
    /\ fsFiles = <<>>

\* what the destination held before the restore of the container as built
StartFS ==
    IF scenario \in {"dir", "fileAt", "dirAt"} THEN TargetBefore
    ELSE [name |-> "no", dirs |-> {Dot}, files |-> <<>>]

\* the file system after the tasks from k on that have run are applied in
\* table order
RECURSIVE AppliedInOrder(_, _, _)
AppliedInOrder(k, dirs, files) ==
    IF k > Len(hdr.tasks) THEN [dirs |-> dirs, files |-> files]
    ELSE IF wk[k].state \in {"extracted", "done"}
        THEN LET task == hdr.tasks[k]
                 sr == SectionBytes(out, offsets[k], task.CompressedSize)
                 d == DecompressFileStreaming(sr, task, dirs, files)
             IN AppliedInOrder(k + 1, d.dirs, d.files)
    ELSE AppliedInOrder(k + 1, dirs, files)

\* C15: tasks commute: whatever the order in which workers started and
\* completed, the destination holds what the completed tasks give when run
\* one after the other in table order, and so the final files are the same
OrderIndependent ==
    (pc \in {"spawn", "done"} /\ ~hdr.err /\ AsBuilt)
        => LET pre == PreCreate(PreCreatePaths(hdr), StartFS.dirs, StartFS.files)
               seq == AppliedInOrder(1, pre.dirs, StartFS.files)
           IN /\ fsFiles = seq.files
              /\ fsDirs = seq.dirs

OrderIndependentWitness ==
    /\ pc = "spawn" /\ Len(wk) = 2 /\ semCap = 1
    /\ wk[2].state = "done" /\ wk[1].state = "waiting"
    /\ FileRestored(2) /\ ~FileRestored(1)
    /\ Len(entries[2].Data) > 0

\* C16: the error channel holds as many errors as there are tasks and each
\* worker sends at most one, so the queue never exceeds the capacity and a
\* worker about to report never finds it full
ErrorChannelRoom ==
    /\ pc = "spawn" => ErrChCap(hdr.tasks) = Len(hdr.tasks)
    /\ Len(errCh) <= Cardinality({i \in DOMAIN wk : wk[i].state \in {"extracted", "done"}})
    /\ \A k, l \in 1..Len(errCh) : k # l => errCh[k].path # errCh[l].path
    /\ \A i \in DOMAIN wk :
          wk[i].state = "running" => Len(errCh) < ErrChCap(hdr.tasks)

ErrorChannelRoomWitness ==
    /\ pc = "spawn" /\ Len(hdr.tasks) = 2
    /\ Len(errCh) = 2
    /\ wk[1].state = "done" /\ wk[2].state = "extracted"
    /\ errCh[1].path = hdr.tasks[2].DestPath

\* C14: for every task count and pool size and under every fair interleaving
\* the extraction of a valid directory container ends, with no error and
\* every entry restored
ExtractionTerminates ==
    (pc = "parsed" /\ input = DirInput)
        ~> (/\ pc = "done"
            /\ result = NoErr
            /\ \A i \in 1..N : wk[i].state = "done" /\ FileRestored(i))

ExtractionTerminatesWitness ==
    /\ pc = "done" /\ input = DirInput
    /\ N = MaxFiles /\ semCap = 1
    /\ result = NoErr
    /\ \A i \in 1..N : wk[i].state = "done" /\ FileRestored(i)

\* C17: a source file of length zero adds no payload bytes: its record holds
\* original size 0 and compressed size 0, and the payload of the next entry
\* starts at the offset where its own would have started
EmptyFileNoPayload ==
    (Built /\ AsBuilt) =>
        \A i \in 1..N :
            entries[i].Data = <<>> =>
                /\ StoredOriginalSize(i) = 0
                /\ StoredCompressedSize(i) = 0
                /\ endPos[i] = startPos[i]
                /\ i < N => startPos[i + 1] = startPos[i]

\* the header of a container as built has been read
HeaderRead == pc \in {"parsed", "spawn", "done"} /\ AsBuilt /\ ~hdr.err

StoredRootName ==
    LET l == BigEndianValue(SubSeq(out, 7, 8)) IN SubSeq(out, 9, 8 + l)

\* the header of a single-file container made elsewhere has been read
ForeignRead ==
    /\ pc \in {"parsed", "spawn", "done"}
    /\ scenario \in {"foreign", "foreignDir"}
    /\ ~hdr.err /\ Len(hdr.tasks) = 1
    /\ hdr.archiveType = ArchiveFile

SingleFileNoTarget ==
    (ForeignRead /\ userTarget = <<>>) =>
        LET rel == entries[1].RelPath
            dest == hdr.tasks[1].DestPath
        IN /\ rel # <<>> => dest = Join(Dot, rel)
           /\ (rel = <<>> /\ StoredRootName # <<>>)
                  => dest = Join(Dot, StoredRootName)
           /\ (rel = <<>> /\ StoredRootName = <<>>) => dest = Join(Dot, <<120>>)

\* nothing was stored: the container "x.agcp" was restored as the file "x"
SingleFileNoTargetWitness ==
    /\ pc = "done" /\ scenario = "foreign" /\ userTarget = <<>>
    /\ hdr.archiveType = ArchiveFile
    /\ StoredRootName = <<>> /\ entries[1].RelPath = <<>>
    /\ entries[1].Data # <<>>
    /\ result = NoErr
    /\ hdr.tasks[1].DestPath = <<120>>
    /\ HasFile(<<120>>, entries[1].Data)

\* the destination as the user left it before the restore of a container
\* made elsewhere
ForeignDirsBefore == IF scenario = "foreignDir" THEN {Dot, Target} ELSE {Dot}

\* C21: the destination resolver changes no state and is total: whatever
\* kind byte, target, relative path and root name the parser hands to it,
\* the destination it returns is not the empty path
ResolverTotal ==
    (pc = "parsed" /\ scenario \in {"foreign", "foreignDir"}) =>
        /\ fsDirs = ForeignDirsBefore /\ fsFiles = <<>>
        /\ \A i \in 1..Len(hdr.tasks) : hdr.tasks[i].DestPath # <<>>

\* slot j of the entry table as it is in the file
SlotBytes(j) ==
    SubSeq(out, entryOffsets[j] + 1,
           entryOffsets[j] + PlaceholderSize(entries[j].RelPath))

\* slot j holds the record of an entry streamed to the end
SlotFinal(j) ==
    /\ j <= Len(endPos)
    /\ SlotBytes(j) = EntryRecord(entries[j].RelPath, Len(entries[j].Data),
                                  endPos[j] - startPos[j])

SlotZero(j) == SlotBytes(j) = Zeros(PlaceholderSize(entries[j].RelPath))

\* the build failed in the compress loop, on entry bi
AbortedStreaming ==
    /\ pc = "aborted"
    /\ result.kind \in {CompressSteps[k] : k \in DOMAIN CompressSteps}

\* compressFiles returned at once and cleaned nothing up: no later entry was
\* streamed, the header and every slot are in the file
AbortedAtOnce ==
    /\ result # NoErr /\ result.path = entries[bi].FilePath
    /\ Len(startPos) = bi - 1 /\ Len(endPos) = bi - 1
    /\ Take(out, Len(HeaderBytes(inKind, rootName, N))) = HeaderBytes(inKind, rootName, N)
    /\ Len(out) >= wpos

\* C22 as stated: when a step of the build fails on entry k the build returns
\* at once, the container is left in place, the slots before k hold their
\* final metadata and the slots from k on are zero-filled placeholders
AbortLeavesPlaceholders ==
    pc = "aborted" =>
        /\ AbortedAtOnce
        /\ Len(entryOffsets) = N
        /\ \A j \in 1..(bi - 1) : SlotFinal(j)
        /\ \A j \in bi..N : SlotZero(j)

\* C22: when a step of the compress loop fails on entry k the build returns
\* at once, the container is left in place, the slots before k hold their
\* final metadata and the slots after k are zero-filled placeholders; slot k
\* is a zero-filled placeholder when the failure precedes the writes of the
\* metadata patch and holds the part of its record written so far otherwise
AbortLeavesSlots ==
    AbortedStreaming =>
        /\ AbortedAtOnce
        /\ \A j \in 1..(bi - 1) : SlotFinal(j)
        /\ \A j \in (bi + 1)..N : SlotZero(j)
        /\ LET e == entries[bi]
               size == Len(CompressFileStreaming(e.Data, ReadBufSize).written)
               rec == EntryRecord(e.RelPath, Len(e.Data), size)
               done == CASE result.kind = "writeRelPath" -> 2
                         [] result.kind = "writeOriginalSize" -> 2 + Len(e.RelPath)
                         [] result.kind = "writeCompressedSize" -> 2 + Len(e.RelPath) + 8
                         [] result.kind = "seekBack" -> Len(rec)
                         [] OTHER -> 0
           IN SlotBytes(bi) = Take(rec, done) \o Zeros(Len(rec) - done)

\* the second entry's sizes could not be written: its slot holds its path,
\* the first slot is final
AbortLeavesSlotsWitness ==
    /\ pc = "aborted" /\ result.kind = "writeOriginalSize"
    /\ N = 2 /\ bi = 2
    /\ SlotFinal(1) /\ ~SlotZero(2)
    /\ entries[2].Data # <<>>

\* by the container format: the entry count stored in the header and the
\* relative path stored in record i
StoredCount ==
    LET at == 8 + Len(StoredRootName) IN BigEndianValue(SubSeq(out, at + 1, at + 4))

StoredRelPath(i) ==
    LET l == BigEndianValue(SubSeq(out, RecordOffset(i) + 1, RecordOffset(i) + 2))
    IN SubSeq(out, RecordOffset(i) + 3, RecordOffset(i) + 2 + l)

\* C25: the header of a built container carries "AGCP", version 1, kind 1
\* exactly for a directory input and 0 otherwise, the last element of the
\* input path as root name, and the number of the records that follow
HeaderAsBuilt ==
    (Built /\ AsBuilt) =>
        /\ SubSeq(out, 1, 4) = <<65, 71, 67, 80>>
        /\ out[5] = 1
        /\ out[6] = (IF input = DirInput THEN 1 ELSE 0)
        /\ StoredRootName = (IF input = <<115, 47, 102>> THEN <<102>> ELSE input)
        /\ StoredCount = Len(entries)
        /\ \A i \in 1..Len(entries) : StoredRelPath(i) = entries[i].RelPath
        /\ PayloadStart = 12 + Len(StoredRootName)
              + SumSeq([i \in 1..Len(entries) |-> 18 + Len(entries[i].RelPath)])

\* the file "s/f" was packed under the root name "f" as a single-file
\* container with one record
HeaderAsBuiltWitness ==
    /\ pc = "built" /\ scenario = "no"
    /\ input = <<115, 47, 102>> /\ StoredRootName = <<102>>
    /\ out[6] = 0 /\ StoredCount = 1

\* C29: the slots of all entries are reserved, in input order and one right
\* after the other from the end of the header, before the first payload byte
\* is written, and the payload start is where the last slot ends from then on
SlotsBeforePayload ==
    /\ pc = "slots" =>
          /\ startPos = <<>> /\ endPos = <<>>
          /\ Len(out) = wpos
          /\ out = HeaderBytes(inKind, rootName, N)
                      \o Zeros(wpos - Len(HeaderBytes(inKind, rootName, N)))
    /\ ((pc \in {"stream", "built"} \/ AbortedStreaming) /\ AsBuilt) =>
          /\ Len(entryOffsets) = N
          /\ \A j \in 1..N :
                entryOffsets[j] = 12 + Len(rootName)
                    + SumSeq([l \in 1..(j - 1) |-> 18 + Len(entries[l].RelPath)])
          /\ (IF startPos = <<>> THEN wpos ELSE startPos[1]) = TableLength
          /\ \A j \in 1..Len(startPos) : startPos[j] >= TableLength

\* two entries have been streamed behind the two slots
SlotsBeforePayloadWitness ==
    /\ pc = "stream" /\ N = 2 /\ Len(endPos) = 2
    /\ entryOffsets[2] = entryOffsets[1] + 18 + Len(entries[1].RelPath)
    /\ startPos[1] = entryOffsets[2] + 18 + Len(entries[2].RelPath)
    /\ endPos[2] > startPos[1]

\* C30: a round of the compress loop on entry i changes, before the old end
\* of the file, exactly the 2 + len(relPath) + 16 bytes of slot i, which then
\* hold the record; the payload of entry i is appended at the old end and is
\* not touched by the patch; the write position ends up at the end of that
\* payload, which is the end of the file
PatchInSlot ==
    [][(pc = "stream" /\ pc' = "stream" /\ bi' = bi + 1) =>
          LET e == entries[bi]
              lo == entryOffsets[bi]
              hi == entryOffsets[bi] + 2 + Len(e.RelPath) + 16
              payload == CompressFileStreaming(e.Data, ReadBufSize).written
          IN /\ \A x \in 1..Len(out) : (x <= lo \/ x > hi) => out'[x] = out[x]
             /\ SubSeq(out, lo + 1, hi) = Zeros(hi - lo)
             /\ SubSeq(out', lo + 1, hi)
                    = EntryRecord(e.RelPath, Len(e.Data), Len(payload))
             /\ wpos = Len(out) /\ hi <= wpos
             /\ startPos'[bi] = wpos
             /\ SubSeq(out', wpos + 1, wpos + Len(payload)) = payload
             /\ endPos'[bi] = wpos + Len(payload)
             /\ wpos' = endPos'[bi]
             /\ Len(out') = wpos']_vars

\* the second entry was streamed right behind the first, both slots patched
PatchInSlotWitness ==
    /\ pc = "stream" /\ N = 2 /\ bi = 3
    /\ startPos[2] = endPos[1] /\ wpos = endPos[2] /\ Len(out) = wpos
    /\ SlotFinal(1) /\ SlotFinal(2)
    /\ entries[1].Data # <<>> /\ entries[2].Data # <<>>

\* C28: a container with an entry count of zero parses to an empty task
\* list; its extraction starts no worker, creates no file in the destination
\* and returns success
EmptyContainerExtracts ==
    (AsBuilt /\ N = 0) =>
        /\ Built => StoredCount = 0
        /\ pc \in {"parsed", "spawn", "done"} =>
              /\ ~hdr.err /\ hdr.tasks = <<>>
              /\ si = 0 /\ wk = <<>> /\ wg = 0 /\ errCh = <<>>
              /\ fsFiles = (IF scenario = "no" THEN <<>> ELSE TargetBefore.files)
        /\ pc = "done" => result = NoErr

\* the empty directory "r" was restored under the target that held a file
EmptyContainerExtractsWitness ==
    /\ pc = "done" /\ input = DirInput /\ N = 0
    /\ scenario = "fileAt" /\ userTarget = Target
    /\ StoredCount = 0 /\ hdr.tasks = <<>>
    /\ result = NoErr /\ si = 0
    /\ DOMAIN fsFiles = {Join(Target, <<100>>)}

\* a call that found its input path missing has returned
MissingReturned ==
    pc \in {"aborted", "done"} /\ result.kind \in {"input", "container"}

\* C26: a build whose input path does not exist and a restore whose
\* container path does not exist return an error and change nothing in the
\* file system: no output or destination file is created, and a file that
\* was at the output path is still there
MissingInputRejected ==
    [][(pc \in {"idle", "built"} /\ pc' \in {"aborted", "done"}) =>
          /\ MissingReturned'
          /\ out' = out
          /\ fsDirs' = fsDirs /\ fsFiles' = fsFiles
          /\ prog' = prog]_vars

\* a build on a missing input returned with the container of the earlier
\* build still at the output path
MissingInputRejectedWitness ==
    /\ pc = "aborted" /\ MissingReturned /\ result.kind = "input"
    /\ bi = N + 1 /\ N = 2
    /\ out # <<>> /\ Len(out) = wpos
    /\ StoredCount = 2

InitCalled ==
    \/ peer.at = "idle" /\ peer'.at = "streaming"
    \/ pc = "idle" /\ pc' = "slots"
    \/ pc = "parsed" /\ pc' = "spawn"

\* C24: an Init called while the observer is running changes nothing: the byte
\* counter, the expected total, the done channel, the running flag and the
\* sampler goroutines are as they were, and no further sampler is started
InitWhileRunningNoOp ==
    [][(InitCalled /\ prog.running)
          => /\ prog'.bytes = prog.bytes
             /\ prog'.total = prog.total
             /\ prog'.done = prog.done
             /\ prog'.running
             /\ prog'.started = prog.started
             /\ prog'.live = prog.live
             /\ prog'.stale = prog.stale]_vars

InitWhileRunningNoOpWitness ==
    /\ pc = "stream" /\ bi = 1 /\ N > 0
    /\ peer = [at |-> "streamed", calls |-> 1, stops |-> 0]
    /\ prog.running /\ prog.started = 1 /\ prog.live = 1 /\ prog.stale = 0
    /\ prog.bytes = PeerBytes /\ prog.done = "open"

\* the container compressFiles writes for the entries when nothing else runs:
\* the header, the record of every entry in order, the payload of every entry
\* in order
RECURSIVE RecordsAlone(_)
RecordsAlone(es) ==
    IF es = <<>> THEN <<>>
    ELSE LET c == CompressFileStreaming(es[1].Data, ReadBufSize)
         IN EntryRecord(es[1].RelPath, c.originalSize, Len(c.written))
                \o RecordsAlone(Tail(es))

RECURSIVE PayloadsAlone(_)
PayloadsAlone(es) ==
    IF es = <<>> THEN <<>>
    ELSE CompressFileStreaming(es[1].Data, ReadBufSize).written
             \o PayloadsAlone(Tail(es))

ContainerAlone(kind, root, es) ==
    HeaderBytes(kind, root, Len(es)) \o RecordsAlone(es) \o PayloadsAlone(es)

\* where the restore of entry i into a destination that was not there puts
\* the file when nothing else runs
DestAlone(i) ==
    IF input = DirInput
        THEN Join(IF userTarget = <<>> THEN rootName ELSE userTarget,
                  entries[i].RelPath)
    ELSE IF userTarget = <<>> THEN rootName ELSE userTarget

\* C27: while another goroutine of the process makes Compress or Decompress
\* calls on other paths, no call panics, Compress returns nil with the
\* container it writes when run alone, and Decompress returns nil with
\* exactly the files it restores when run alone
ConcurrentCallsAgree ==
    /\ prog.done # "panic"
    /\ pc # "aborted"
    /\ Built => out = ContainerAlone(inKind, rootName, entries)
    /\ pc = "done"
          => /\ result = NoErr
             /\ DOMAIN fsFiles = {Clean(DestAlone(i)) : i \in 1..N}
             /\ \A i \in 1..N : HasFile(Clean(DestAlone(i)), entries[i].Data)

ConcurrentCallsAgreeWitness ==
    /\ pc = "done" /\ N = 2 /\ result = NoErr
    /\ Len(entries[1].Data) > 0
    /\ peer = [at |-> "streaming", calls |-> 2, stops |-> 1]
    /\ prog.started = 2 /\ ~prog.running /\ prog.done = "closed"
    /\ prog.bytes < Len(entries[1].Data) + Len(entries[2].Data) + PeerBytes

\* C31: a task whose recorded original size is 0, whatever its recorded
\* compressed size and whatever bytes lie in its range, leaves an empty file
\* at its destination and reports neither an error nor bytes; its compressed
\* size is added to the offset of the task after it
EmptyTaskSkipsCodec ==
    /\ \A i \in DOMAIN wk :
          (wk[i].state = "done" /\ hdr.tasks[i].OriginalSize = 0)
              => /\ ~TaskFailed(i)
                 /\ HasFile(Clean(hdr.tasks[i].DestPath), <<>>)
    /\ \A i \in DOMAIN offsets :
          (hdr.tasks[i].OriginalSize = 0 /\ i < Len(offsets))
              => offsets[i + 1] = offsets[i] + hdr.tasks[i].CompressedSize
    /\ pc = "done" /\ ~hdr.err
          => prog.bytes = SumSeq([i \in 1..Len(hdr.tasks) |->
                                     IF hdr.tasks[i].OriginalSize = 0 THEN 0
                                     ELSE Len(fsFiles[Clean(hdr.tasks[i].DestPath)])])

EmptyTaskSkipsCodecWitness ==
    /\ pc = "done" /\ scenario = "original" /\ N = 2
    /\ Len(entries[1].Data) > 0
    /\ hdr.tasks[1].OriginalSize = 0 /\ hdr.tasks[1].CompressedSize > 0
    /\ HasFile(Clean(hdr.tasks[1].DestPath), <<>>)
    /\ offsets[2] = offsets[1] + hdr.tasks[1].CompressedSize
    /\ FileRestored(2)
    /\ result = NoErr

\* the source bytes of the first k entries
SourceBytes(k) == SumSeq([j \in 1..k |-> Len(entries[j].Data)])

\* C32: during a build that no other call overlaps the counter never goes
\* down, it holds the source bytes of the entries streamed so far, each chunk
\* counted once, and when the build has returned nil it equals the sum of the
\* original sizes stored in the entry table, which is the total given to Init
\* unless that sum is zero
CounterMatchesTable ==
    /\ [][(pc \in {"slots", "stream"}) => (prog'.bytes >= prog.bytes)]_vars
    /\ [](pc = "stream" => prog.bytes = SourceBytes(bi - 1))
    /\ [](pc = "built"
            => /\ prog.bytes = SumSeq([i \in 1..N |-> StoredOriginalSize(i)])
               /\ prog.bytes # 0 => prog.bytes = prog.total
               /\ prog.bytes = 0 => prog.total = 1)

CounterMatchesTableWitness ==
    /\ pc = "built" /\ N = 2
    /\ Len(entries[1].Data) > 1 /\ Len(entries[2].Data) > 1
    /\ prog.bytes = Len(entries[1].Data) + Len(entries[2].Data)
    /\ prog.total = prog.bytes
    /\ StoredOriginalSize(1) + StoredOriginalSize(2) = prog.bytes

\* C33: whatever the order of the Init and Stop calls, a Stop before any Init
\* and a Stop after a Stop included, no close meets a nil or a closed channel,
\* and the closes never outnumber the Inits that started a sampler: one close
\* fewer while the observer runs, as many once it is stopped
ClosedOncePerInit ==
    /\ prog.done # "panic"
    /\ prog.closed <= prog.started
    /\ prog.running => (prog.done = "open" /\ prog.closed = prog.started - 1)
    /\ ~prog.running => (prog.done \in {"nil", "closed"} /\ prog.closed = prog.started)

ClosedOncePerInitWitness ==
    /\ peer.calls = 2 /\ peer.stops = 4
    /\ prog.started = 2 /\ prog.closed = 2
    /\ ~prog.running /\ prog.done = "closed"

\* C34: at most one logger goroutine selects on the current done channel: a
\* logger started by an earlier Init never goes on against the channel of a
\* later Init
OneSamplerLive == prog.live <= 1

\* a call is between its Init and its deferred Stop
CallStreams == pc \in {"stream", "spawn"}
PeerStreams == peer.at \in {"streaming", "streamed"}

\* a step in which a call returns and its deferred progress.Stop() runs
StopCalled ==
    \/ PeerStreams /\ peer'.at = "idle"
    \/ pc = "stream" /\ pc' = "built"
    \/ pc = "spawn" /\ pc' = "done"

\* C35 as stated: while either of two overlapping calls is still between its
\* Init and its Stop the observer is running
ObserverOutlastsCalls ==
    (CallStreams \/ PeerStreams) => (prog.running /\ prog.done = "open")

\* C35: of two overlapping calls the one that returns first stops the
\* observer although the other is still streaming: its Stop closes the done
\* channel and clears the running flag; a Stop that finds the observer stopped
\* changes nothing; and the observer is running while both calls stream only
\* if no call has returned since it was last started
FirstStopEndsSampling ==
    /\ [][(StopCalled /\ prog.running)
             => (~prog'.running /\ prog'.done = "closed"
                 /\ prog'.closed = prog.closed + 1)]_vars
    /\ [][(StopCalled /\ ~prog.running) => (prog' = prog)]_vars
    /\ [](prog.running <=> prog.closed = prog.started - 1)

FirstStopEndsSamplingWitness ==
    /\ pc = "stream" /\ bi = 1 /\ N = 2
    /\ peer = [at |-> "idle", calls |-> 1, stops |-> 1]
    /\ prog.started = 1 /\ prog.closed = 1
    /\ ~prog.running /\ prog.done = "closed"

\* decompressFiles has passed close(errCh)
ErrChClosed == pc = "done" /\ ~hdr.err /\ result.kind # "dir"

\* C36: the error channel is closed only when every worker has finished, a
\* worker sends only while the caller is still before the close, and the
\* caller reads the channel only when no worker is left that could send
ErrChClosedAfterWorkers ==
    /\ [](ErrChClosed
            => /\ wg = 0
               /\ si = Len(hdr.tasks)
               /\ \A i \in DOMAIN wk : wk[i].state = "done")
    /\ [][(errCh' # errCh)
             => (pc = "spawn" /\ pc' = "spawn" /\ Len(errCh') = Len(errCh) + 1)]_vars
    /\ [][(pc = "spawn" /\ pc' = "done")
             => (/\ \A i \in DOMAIN wk : wk[i].state = "done"
                 /\ errCh' = errCh
                 /\ result' = FirstError(errCh))]_vars

ErrChClosedAfterWorkersWitness ==
    /\ pc = "done" /\ ~hdr.err /\ Len(wk) = 2
    /\ Len(errCh) = 2
    /\ errCh[1].path = hdr.tasks[2].DestPath
    /\ result = errCh[1]
    /\ wk[1].state = "done" /\ wk[2].state = "done"

\* the workers that hold a slot of the pool, and those that hold an open
\* handle on the container, when the worker is taken step by step
SlotHolders == {i \in DOMAIN wk : wk[i].state \in {"running", "open", "streamed", "closed"}}
HandleHolders == {i \in DOMAIN wk : wk[i].state \in {"open", "streamed"}}

\* C37: a worker holds a container handle only while it holds a slot it took
\* before os.Open; the slots in use are exactly those of the workers between
\* their acquire and their one release, whether the open failed, the copy
\* failed or all went well; so the open handles never exceed the pool size,
\* and none is open and no slot taken once the restore has returned
PoolBoundsHandles ==
    /\ sem = Cardinality(SlotHolders)
    /\ sem <= semCap
    /\ HandleHolders \subseteq SlotHolders
    /\ Cardinality(HandleHolders) <= semCap
    /\ wg = Cardinality({i \in DOMAIN wk : wk[i].state \notin {"unborn", "done"}})
    /\ ErrChClosed => (sem = 0 /\ HandleHolders = {})

PoolBoundsHandlesWitness ==
    /\ pc = "done" /\ ~hdr.err /\ Len(wk) = 2 /\ semCap = 1
    /\ errCh = <<Err("open", hdr.tasks[1].DestPath)>>
    /\ FileRestored(2) /\ Len(entries[2].Data) > 0
    /\ sem = 0 /\ wg = 0
    /\ result = Err("open", hdr.tasks[1].DestPath)

\* the destination of task i as the file system sees it
DestOf(i) == Clean(hdr.tasks[i].DestPath)

\* C38: in the restore of a container as the Writer built it no two tasks
\* have the same destination, and a worker that changes the files changes
\* only the file at its own destination
DistinctDestinations ==
    /\ [](AsBuilt => \A i, j \in DOMAIN hdr.tasks : i # j => DestOf(i) # DestOf(j))
    /\ [][(AsBuilt /\ pc = "spawn" /\ fsFiles' # fsFiles)
             => \E i \in DOMAIN wk :
                   /\ wk[i].state = "running" /\ wk'[i].state = "extracted"
                   /\ DOMAIN fsFiles' = DOMAIN fsFiles \cup {DestOf(i)}
                   /\ \A q \in DOMAIN fsFiles : q # DestOf(i) => fsFiles'[q] = fsFiles[q]
                   /\ \A j \in DOMAIN wk : j # i => DestOf(j) # DestOf(i)]_vars

DistinctDestinationsWitness ==
    /\ pc = "done" /\ scenario = "no" /\ N = 2
    /\ entries[1].RelPath = <<97>> /\ entries[2].RelPath = <<100, 47, 97>>
    /\ Len(entries[1].Data) > 0 /\ Len(entries[2].Data) > 0
    /\ FileRestored(1) /\ FileRestored(2)
    /\ DestOf(1) # DestOf(2)

\* p names base itself or something below it
Within(base, p) ==
    LET b == SplitPath(Clean(base), <<>>)
        q == SplitPath(Clean(p), <<>>)
    IN IF Clean(base) = Dot THEN q[1] # DotDot /\ q[1] # <<>>
       ELSE Len(q) >= Len(b) /\ SubSeq(q, 1, Len(b)) = b

\* C39: in a directory container every task's destination lies inside the
\* base output directory, whatever relative path its record holds
DestInsideBase ==
    (pc \in {"parsed", "spawn", "done"} /\ ~hdr.err /\ hdr.archiveType = ArchiveDir)
        => \A i \in DOMAIN hdr.tasks : Within(hdr.outputDir, hdr.tasks[i].DestPath)

\* C40: the offsets assigned to the tasks never go backwards in table order
\* and none lies before the payload start, whatever 64-bit compressed sizes
\* the entry table holds
OffsetsNeverGoBack ==
    wide.at = "assigned"
        => /\ \A i \in DOMAIN wide.offsets :
                 ~Less64(wide.offsets[i], wide.startOffset)
           /\ \A i \in DOMAIN wide.offsets :
                 i > 1 => ~Less64(wide.offsets[i], wide.offsets[i - 1])

====
